---- MODULE Spec2Model ----
(***************************************************************************)
(* Resource handlers of the IBM Cloud provider plugin: the GLB monitor,    *)
(* the permitted network, the CIS mTLS certificate, the CIS firewall rule  *)
(* and the Power network.  One configuration record d of one resource type *)
(* (kind) is driven through Create / Read / Update / Delete against a      *)
(* remote entity; last records what the latest handler invocation did.     *)
(*                                                                         *)
(* A composite identity is the sequence of its segments: "i1/e1" is        *)
(* <<"i1", "e1">> and the empty identity "" is << >>.  Field values are    *)
(* strings; Nil is a nil pointer of a response or request object.          *)
(***************************************************************************)
EXTENDS Integers, Sequences, FiniteSets, TLC

VARIABLES
    kind,    \* the resource type of the record
    d,       \* the record: its identity d.id and its field values d.f
    cfg,     \* the configuration the latest Create or Update was given
    remote,  \* the remote entity
    last,    \* the latest handler invocation: what it was and how it ended
    site,    \* Power: where the workspace runs ("onprem", "noper", "per")
    pc,      \* Power: the position of the running handler, "idle" when none
    loc,     \* Power: the locals of the running handler
    wait,    \* Power: the current (or latest) poll-converge wait
    ip,      \* generateIPData applied to a CIDR: its input and its result
    ops,     \* the number of handler invocations so far
    th,      \* concurrent operations: what each thread of the plugin runs
    mu,      \* conns.IbmMutexKV: the holder of each named lock (0: free)
    sess     \* the client session objects the threads work on

vars ==
    <<kind, d, cfg, remote, last, site, pc, loc, wait, ip, ops, th, mu, sess>>

Nil == "nil"

\* The remote side: the entity (exists, its key of parent and leaf identifiers,
\* its fields) and, for the firewall rule, whether its filter exists (aux).
NoRemote == [exists |-> FALSE, key |-> << >>, f |-> << >>, aux |-> FALSE]

\* strings.Split(s, "/"): the empty string splits into one empty segment.
Split(id) == IF id = << >> THEN <<"">> ELSE id

\* schema.ResourceData.GetOk: ok is false for the zero value of the type.
GetOk(v, zero) == v # zero

\* A d.Set that stores the zero value whatever the response holds.
SetValZero(v, zero) == zero

\* The value d.Set stores for a response field: a nil pointer stores the zero value.
SetVal(v, zero) == IF v = Nil THEN zero ELSE v

\* The HTTP status of a vendor call addressing the entity `key`: a server
\* fault answers 500, an absent entity 404.
Status(rem, key, fault) ==
    IF fault THEN 500
    ELSE IF rem.exists /\ rem.key = key THEN 200
    ELSE 404

\* The errors with which a handler reports a session construction or a
\* vendor call that failed.
Failures == {"ClientInitializationError", "APIError", "RequestError"}

\* What a handler invocation leaves behind.  failed says that a session
\* construction or a vendor call of the invocation failed for a reason other
\* than "not found".
Outcome(w, rem, out, calls) ==
    [d |-> w, rem |-> rem, out |-> out, calls |-> calls, failed |-> out \in Failures,
     sent |-> {}]

\* The fields a request carries: those that are set in it.
RequestFields(q) == {k \in DOMAIN q : q[k] # Nil}

\* The outcome of an Update whose request to the vendor carried `fields`.
Sent(o, fields) == [o EXCEPT !.sent = fields]

\* The outcome of a handler that drops the error of a failed step.
Swallowed(o) == [o EXCEPT !.failed = TRUE]

\* The identifier the vendor assigns to a created entity.
NewID == "e1"

(***************************************************************************)
(* GLB monitor (resource_ibm_private_dns_glb_monitor.go)                   *)
(***************************************************************************)
GLBZero == [instance_id |-> "", name |-> "", description |-> "", port |-> "0"]

GLBConfigs ==
    [instance_id : {"i1"}, name : {"n1", "n2"}, description : {"", "d1"},
     port : {"0", "80"}]

\* resourceIBMPrivateDNSGLBMonitorRead
GLBReadOp(w, rem, sessOk, fault) ==
    IF ~sessOk THEN Outcome(w, rem, "ClientInitializationError", << >>)
    ELSE LET idset == Split(w.id) IN
    IF Len(idset) < 2 THEN Outcome(w, rem, "panic", << >>)
    ELSE LET st == Status(rem, <<idset[1], idset[2]>>, fault) IN
    IF st # 200 THEN Outcome(w, rem, "APIError", <<"GetMonitor">>)
    ELSE LET r == rem.f
             f1 == [w.f EXCEPT !.instance_id = idset[1],
                               !.name = SetVal(r.name, ""),
                               !.port = SetVal(r.port, "0")]
             f2 == IF r.description # Nil
                   THEN [f1 EXCEPT !.description = r.description] ELSE f1
         IN Outcome([w EXCEPT !.f = f2], rem, "ok", <<"GetMonitor">>)

\* The request body of CreateMonitor / UpdateMonitor.
GLBRequest(c) ==
    [name |-> c.name,
     description |-> IF GetOk(c.description, "") THEN c.description ELSE Nil,
     port |-> IF GetOk(c.port, "0") THEN c.port ELSE Nil]

\* Appends the calls of a delegated Read to those the handler made before it.
AfterRead(r, calls) == [r EXCEPT !.calls = calls \o r.calls]

\* resourceIBMPrivateDNSGLBMonitorCreate
GLBCreateOp(w, rem, sessOk, fault, faultRead) ==
    IF ~sessOk THEN Outcome(w, rem, "ClientInitializationError", << >>)
    ELSE IF fault THEN Outcome(w, rem, "APIError", <<"CreateMonitor">>)
    ELSE LET rem1 == [exists |-> TRUE, key |-> <<w.f.instance_id, NewID>>,
                      f |-> GLBRequest(w.f), aux |-> FALSE]
             w1 == [w EXCEPT !.id = <<w.f.instance_id, NewID>>]
         IN AfterRead(GLBReadOp(w1, rem1, TRUE, faultRead), <<"CreateMonitor">>)

\* A d.HasChange that reports a change of every field it is asked about.
HasChangeAlways(old, new, fields) == fields # {}

\* d.HasChange over the fields the Update handler looks at.
HasChange(old, new, fields) == \E k \in fields : old[k] # new[k]

\* resourceIBMPrivateDNSGLBMonitorUpdate
GLBUpdateOp(old, w, rem, sessOk, fault, faultRead) ==
    IF ~sessOk THEN Outcome(w, rem, "ClientInitializationError", << >>)
    ELSE LET idset == Split(w.id) IN
    IF HasChange(old, w.f, {"name", "description", "port"})
    THEN IF Len(idset) < 2 THEN Outcome(w, rem, "panic", << >>)
         ELSE LET st == Status(rem, <<idset[1], idset[2]>>, fault)
                  q == GLBRequest(w.f)
                  \* SetName and SetDescription are unconditional in Update.
                  q1 == [q EXCEPT !.description = w.f.description]
                  rem1 == [rem EXCEPT !.f = q1]
              IN
         Sent(IF st # 200 THEN Outcome(w, rem, "APIError", <<"UpdateMonitor">>)
              ELSE AfterRead(GLBReadOp(w, rem1, TRUE, faultRead), <<"UpdateMonitor">>),
              RequestFields(q1))
    ELSE GLBReadOp(w, rem, TRUE, faultRead)

\* A Delete of the monitor that forgets the identity before the vendor answers.
GLBDeleteOpForgetful(w, rem, sessOk, fault) ==
    IF ~sessOk THEN Outcome(w, rem, "ClientInitializationError", << >>)
    ELSE LET idset == Split(w.id) IN
    IF Len(idset) < 2 THEN Outcome(w, rem, "panic", << >>)
    ELSE LET st == Status(rem, <<idset[1], idset[2]>>, fault) IN
    IF st # 200 THEN Outcome([w EXCEPT !.id = << >>], rem, "APIError", <<"DeleteMonitor">>)
    ELSE Outcome([w EXCEPT !.id = << >>], NoRemote, "ok", <<"DeleteMonitor">>)

\* resourceIBMPrivateDNSGLBMonitorDelete
GLBDeleteOp(w, rem, sessOk, fault) ==
    IF ~sessOk THEN Outcome(w, rem, "ClientInitializationError", << >>)
    ELSE LET idset == Split(w.id) IN
    IF Len(idset) < 2 THEN Outcome(w, rem, "panic", << >>)
    ELSE LET st == Status(rem, <<idset[1], idset[2]>>, fault) IN
    IF st # 200 THEN Outcome(w, rem, "APIError", <<"DeleteMonitor">>)
    ELSE Outcome([w EXCEPT !.id = << >>], NoRemote, "ok", <<"DeleteMonitor">>)

\* Whether a vendor call answering the status st hands back a result object
\* next to the detailed response: a failed call hands back none.
ResultOf(st) == st = 200

\* resourceIBMPrivateDNSGLBMonitorExists
GLBExistsOp(w, rem, sessOk, fault) ==
    IF ~sessOk THEN [exists |-> FALSE, out |-> "ClientInitializationError",
                     calls |-> << >>]
    ELSE LET idset == Split(w.id) IN
    IF Len(idset) < 2
    THEN [exists |-> FALSE, out |-> "IdentityParseError", calls |-> << >>]
    ELSE LET st == Status(rem, <<idset[1], idset[2]>>, fault)
             \* response, detail, err := sess.GetMonitor(...)
             response == ResultOf(st)
         IN
    IF st # 200
    THEN IF response /\ st = 404
         THEN [exists |-> FALSE, out |-> "ok", calls |-> <<"GetMonitor">>]
         ELSE [exists |-> FALSE, out |-> "APIError", calls |-> <<"GetMonitor">>]
    ELSE [exists |-> TRUE, out |-> "ok", calls |-> <<"GetMonitor">>]

\* schema.Resource.RefreshWithoutUpgrade of a resource that has an Exists
\* handler: Exists runs first; its error ends the refresh, its "no" drops the
\* record without calling Read (r, the outcome Read would have).
Refresh(e, w, rem, r) ==
    IF e.out # "ok" THEN Outcome(w, rem, e.out, e.calls)
    ELSE IF ~e.exists THEN Outcome([w EXCEPT !.id = << >>], rem, "ok", e.calls)
    ELSE AfterRead(r, e.calls)

(***************************************************************************)
(* Permitted network (part_003).  The parent lock taken by Create, Delete  *)
(* and Exists is released before the handler returns and plays no part in  *)
(* the outcome of one handler running alone.                               *)
(***************************************************************************)
PNZero == [instance_id |-> "", zone_id |-> "", vpc_crn |-> "", type |-> ""]

PNConfigs ==
    [instance_id : {"i1"}, zone_id : {"z1"}, vpc_crn : {"v1", "v2"},
     type : {"vpc"}]

\* resourceIBMPrivateDNSPermittedNetworkRead
PNReadOp(w, rem, sessOk, fault) ==
    IF ~sessOk THEN Outcome(w, rem, "ClientInitializationError", << >>)
    ELSE LET idSet == Split(w.id) IN
    IF Len(idSet) < 3 THEN Outcome(w, rem, "panic", << >>)
    ELSE LET st == Status(rem, <<idSet[1], idSet[2], idSet[3]>>, fault) IN
    IF st # 200 THEN Outcome(w, rem, "APIError", <<"GetPermittedNetwork">>)
    ELSE LET r == rem.f
             f1 == [w.f EXCEPT !.instance_id = idSet[1],
                               !.zone_id = idSet[2],
                               !.vpc_crn = SetVal(r.vpc_crn, ""),
                               !.type = SetVal(r.type, "")]
         IN Outcome([w EXCEPT !.f = f1], rem, "ok", <<"GetPermittedNetwork">>)

\* resourceIBMPrivateDNSPermittedNetworkCreate; vpcOk is the outcome of
\* NewPermittedNetworkVpc.
PNCreateOp(w, rem, sessOk, vpcOk, fault, faultRead) ==
    IF ~sessOk THEN Outcome(w, rem, "ClientInitializationError", << >>)
    ELSE IF ~vpcOk THEN Outcome(w, rem, "ValidationError", << >>)
    ELSE IF fault THEN Outcome(w, rem, "APIError", <<"CreatePermittedNetwork">>)
    ELSE LET key == <<w.f.instance_id, w.f.zone_id, NewID>>
             rem1 == [exists |-> TRUE, key |-> key, aux |-> FALSE,
                      f |-> [vpc_crn |-> w.f.vpc_crn, type |-> w.f.type]]
             w1 == [w EXCEPT !.id = key]
         IN AfterRead(PNReadOp(w1, rem1, TRUE, faultRead),
                      <<"CreatePermittedNetwork">>)

\* resourceIBMPrivateDNSPermittedNetworkDelete
PNDeleteOp(w, rem, sessOk, fault) ==
    IF ~sessOk THEN Outcome(w, rem, "ClientInitializationError", << >>)
    ELSE LET idSet == Split(w.id) IN
    IF Len(idSet) < 3 THEN Outcome(w, rem, "panic", << >>)
    ELSE LET st == Status(rem, <<idSet[1], idSet[2], idSet[3]>>, fault) IN
    IF st # 200 THEN Outcome(w, rem, "APIError", <<"DeletePermittedNetwork">>)
    ELSE Outcome([w EXCEPT !.id = << >>], NoRemote, "ok",
                 <<"DeletePermittedNetwork">>)

\* resourceIBMPrivateDNSPermittedNetworkExists
PNExistsOp(w, rem, sessOk, fault) ==
    IF ~sessOk THEN [exists |-> FALSE, out |-> "ClientInitializationError",
                     calls |-> << >>]
    ELSE LET idSet == Split(w.id) IN
    IF Len(idSet) < 3
    THEN [exists |-> FALSE, out |-> "IdentityParseError", calls |-> << >>]
    ELSE LET st == Status(rem, <<idSet[1], idSet[2], idSet[3]>>, fault) IN
    IF st = 404
    THEN [exists |-> FALSE, out |-> "ok", calls |-> <<"GetPermittedNetwork">>]
    ELSE IF st # 200
    THEN [exists |-> FALSE, out |-> "APIError", calls |-> <<"GetPermittedNetwork">>]
    ELSE [exists |-> TRUE, out |-> "ok", calls |-> <<"GetPermittedNetwork">>]

(***************************************************************************)
(* CIS composite identities (flex.ConvertCisToTfThreeVar and its inverses) *)
(***************************************************************************)
\* flex.ConvertCisToTfThreeVar: the three parts joined by the separator.  A
\* part that is itself composite contributes all its segments.
ConvertCisToTfThreeVar(a, zone, crn) == <<a>> \o zone \o <<crn>>

\* The segments from the third on, joined again (one string in the code).
Rest(id) == IF Len(id) = 3 THEN id[3] ELSE SubSeq(id, 3, Len(id))

\* flex.ConvertTfToCisThreeVar: splits into at most three parts; with fewer
\* than three it reports an error and leaves the missing parts empty.
ConvertTfToCisThreeVar(id) ==
    LET g == Split(id) IN
    IF Len(g) > 2 THEN [a |-> g[1], zone |-> g[2], crn |-> Rest(g), err |-> FALSE]
    ELSE [a |-> g[1], zone |-> "", crn |-> "", err |-> TRUE]

\* flex.ConvertTftoCisTwoVar: the zone id of a domain id given either bare
\* ("z1") or composite ("z1:crn"); the bare form reports an error.
ConvertTftoCisTwoVar(dom) ==
    LET g == Split(dom) IN [a |-> g[1], err |-> Len(g) < 2]

(***************************************************************************)
(* CIS mTLS certificate (part_002).  The session's Crn field is set before *)
(* every call; a call therefore addresses <<crn, zone, certificate id>>.   *)
(* resp is the answer of a creating or updating call: "ok", "fail" (an     *)
(* error) or "empty" (no error and no result object).                      *)
(***************************************************************************)
MtlsZero ==
    [cis_id |-> "", domain_id |-> << >>, certificate |-> "", name |-> "",
     associated_hostnames |-> << >>]

MtlsConfigs ==
    [cis_id : {"crn1"}, domain_id : {<<"z1">>}, certificate : {"pem1"},
     name : {"n1", "n2"}, associated_hostnames : {<<"h1">>, <<"h1", "h2">>}]

\* resourceIBMCISMtlsRead
MtlsReadOp(w, rem, sessOk, fault) ==
    IF ~sessOk THEN Outcome(w, rem, "ClientInitializationError", << >>)
    ELSE LET p == ConvertTfToCisThreeVar(w.id)
             st == Status(rem, <<p.crn, p.zone, p.a>>, fault)
         IN
    IF st = 404 THEN Outcome([w EXCEPT !.id = << >>], rem, "ok",
                             <<"GetAccessCertificate">>)
    ELSE IF st # 200 THEN Outcome(w, rem, "APIError", <<"GetAccessCertificate">>)
    ELSE Outcome([w EXCEPT !.f.cis_id = p.crn, !.f.domain_id = <<p.zone>>],
                 rem, "ok", <<"GetAccessCertificate">>)

\* resourceIBMCISMtlsCreate
MtlsCreateOp(w, rem, sessOk, resp, faultRead) ==
    IF ~sessOk THEN Outcome(w, rem, "ClientInitializationError", << >>)
    ELSE IF resp = "fail"
    THEN Outcome(w, rem, "APIError", <<"CreateAccessCertificate">>)
    ELSE IF resp = "empty"
    THEN Outcome(w, rem, "panic", <<"CreateAccessCertificate">>)
    ELSE LET c == w.f
             \* the domain id as configured, one string
             zoneID == IF Len(c.domain_id) = 1 THEN c.domain_id[1] ELSE c.domain_id
             q == [name |-> IF GetOk(c.name, "") THEN c.name ELSE Nil,
                   certificate |->
                       IF GetOk(c.certificate, "") THEN c.certificate ELSE Nil,
                   associated_hostnames |->
                       IF GetOk(c.associated_hostnames, << >>)
                       THEN c.associated_hostnames ELSE Nil]
             rem1 == [exists |-> TRUE, key |-> <<c.cis_id, zoneID, NewID>>,
                      f |-> q, aux |-> FALSE]
             w1 == [w EXCEPT !.id = ConvertCisToTfThreeVar(NewID, c.domain_id, c.cis_id)]
         IN AfterRead(MtlsReadOp(w1, rem1, TRUE, faultRead),
                      <<"CreateAccessCertificate">>)

\* resourceIBMCISMtlsUpdate
MtlsUpdateOp(old, w, rem, sessOk, fault, faultRead) ==
    IF ~sessOk THEN Outcome(w, rem, "ClientInitializationError", << >>)
    ELSE LET p == ConvertTfToCisThreeVar(w.id)
             c == w.f
         IN
    IF HasChange(old, c, {"name", "associated_hostnames"})
    THEN LET st == Status(rem, <<c.cis_id, p.zone, p.a>>, fault)
             fields == {k \in {"associated_hostnames"} :
                           GetOk(c.associated_hostnames, << >>)}
                       \cup {k \in {"name"} : GetOk(c.name, "")}
         IN
         Sent(IF st # 200
              THEN Outcome(w, rem, "APIError", <<"UpdateAccessCertificate">>)
              ELSE LET f1 == [k \in DOMAIN rem.f |->
                                 IF k \in fields THEN c[k] ELSE rem.f[k]]
                   IN AfterRead(MtlsReadOp(w, [rem EXCEPT !.f = f1], TRUE, faultRead),
                                <<"UpdateAccessCertificate">>),
              fields)
    ELSE MtlsReadOp(w, rem, TRUE, faultRead)

\* resourceIBMCISMtlsDelete
MtlsDeleteOp(w, rem, sessOk, fault) ==
    IF ~sessOk THEN Outcome(w, rem, "ClientInitializationError", << >>)
    ELSE LET p == ConvertTfToCisThreeVar(w.id)
             st == Status(rem, <<p.crn, p.zone, p.a>>, fault)
         IN
    IF st # 200 THEN Outcome(w, rem, "APIError", <<"DeleteAccessCertificate">>)
    ELSE Outcome(w, NoRemote, "ok", <<"DeleteAccessCertificate">>)

(***************************************************************************)
(* CIS firewall rule (part_001).  The rule refers to a filter, a second    *)
(* remote entity (remote.aux) that Delete removes after the rule.          *)
(***************************************************************************)
FWZero ==
    [cis_id |-> "", domain_id |-> << >>, filter_id |-> "", action |-> "",
     paused |-> "false", description |-> "", priority |-> "0"]

FWConfig(domain_id, action, paused, description, priority) ==
    [cis_id |-> "crn1", domain_id |-> domain_id, filter_id |-> "f1",
     action |-> action, paused |-> paused, description |-> description,
     priority |-> priority]

\* The configurations tried; the domain id is given bare or composite.
FWConfigs ==
    {FWConfig(<<"z1">>, "block", "false", "", "0"),
     FWConfig(<<"z1">>, "allow", "false", "d1", "0"),
     FWConfig(<<"z1", "crn1">>, "allow", "true", "d1", "5"),
     FWConfig(<<"z1", "crn1">>, "block", "false", "", "5")}

\* ResourceIBMCISFirewallrulesRead
FWReadOp(w, rem, sessOk, fault) ==
    IF ~sessOk THEN Outcome(w, rem, "ClientInitializationError", << >>)
    ELSE LET p == ConvertTfToCisThreeVar(w.id)
             st == Status(rem, <<p.crn, p.zone, p.a>>, fault)
         IN
    IF st = 404 THEN Outcome([w EXCEPT !.id = << >>], rem, "ok",
                             <<"GetFirewallRule">>)
    ELSE IF st # 200 THEN Outcome(w, rem, "APIError", <<"GetFirewallRule">>)
    ELSE LET r == rem.f IN
         Outcome([w EXCEPT !.f.cis_id = p.crn,
                           !.f.domain_id = <<p.zone>>,
                           !.f.filter_id = SetVal(r.filter_id, ""),
                           !.f.action = SetVal(r.action, ""),
                           !.f.paused = SetVal(r.paused, "false"),
                           !.f.description = SetVal(r.description, "")],
                 rem, "ok", <<"GetFirewallRule">>)

\* The FirewallRuleInput / FirewallRulesUpdateInputItem built from the record.
FWRequest(c) ==
    [action |-> IF GetOk(c.action, "") THEN c.action ELSE Nil,
     paused |-> IF GetOk(c.paused, "false") THEN c.paused ELSE Nil,
     description |-> IF GetOk(c.description, "") THEN c.description ELSE Nil,
     filter_id |-> IF GetOk(c.filter_id, "") THEN c.filter_id ELSE Nil,
     priority |-> IF GetOk(c.priority, "0") THEN c.priority ELSE Nil]

\* ResourceIBMCISFirewallrulesCreate
FWCreateOp(w, rem, sessOk, resp, faultRead) ==
    IF ~sessOk THEN Outcome(w, rem, "ClientInitializationError", << >>)
    ELSE IF resp = "fail" THEN Outcome(w, rem, "APIError", <<"CreateFirewallRules">>)
    ELSE IF resp = "empty" THEN Outcome(w, rem, "panic", <<"CreateFirewallRules">>)
    ELSE LET crn == w.f.cis_id
             zoneID == ConvertTftoCisTwoVar(w.f.domain_id).a
             rem1 == [exists |-> TRUE, key |-> <<crn, zoneID, NewID>>,
                      f |-> FWRequest(w.f), aux |-> rem.aux]
             w1 == [w EXCEPT !.id = ConvertCisToTfThreeVar(NewID, <<zoneID>>, crn)]
         IN AfterRead(FWReadOp(w1, rem1, TRUE, faultRead), <<"CreateFirewallRules">>)

\* ResourceIBMCISFirewallrulesUpdate
FWUpdateOp(old, w, rem, sessOk, resp, faultRead) ==
    IF ~sessOk THEN Outcome(w, rem, "ClientInitializationError", << >>)
    ELSE LET p == ConvertTfToCisThreeVar(w.id) IN
    IF HasChange(old, w.f,
                 {"filter_id", "action", "paused", "description", "priority"})
    THEN LET st == Status(rem, <<p.crn, p.zone, p.a>>, resp = "fail")
             q == FWRequest(w.f)
         IN
         Sent(IF st # 200 THEN Outcome(w, rem, "APIError", <<"UpdateFirewllRules">>)
              ELSE IF resp = "empty"
              THEN Outcome(w, rem, "panic", <<"UpdateFirewllRules">>)
              ELSE LET f1 == [k \in DOMAIN rem.f |->
                                 IF q[k] # Nil THEN q[k] ELSE rem.f[k]]
                   IN AfterRead(FWReadOp(w, [rem EXCEPT !.f = f1], TRUE, faultRead),
                                <<"UpdateFirewllRules">>),
              RequestFields(q))
    ELSE FWReadOp(w, rem, TRUE, faultRead)

\* ResourceIBMCISFirewallrulesDelete
FWDeleteOp(w, rem, sessOk, fault, filterSessOk, faultFilter) ==
    IF ~sessOk THEN Outcome(w, rem, "ClientInitializationError", << >>)
    ELSE LET p == ConvertTfToCisThreeVar(w.id)
             st == Status(rem, <<p.crn, p.zone, p.a>>, fault)
             gone == [NoRemote EXCEPT !.aux = rem.aux]
         IN
    IF st = 404 THEN Outcome(w, rem, "ok", <<"DeleteFirewallRules">>)
    ELSE IF st # 200 THEN Outcome(w, rem, "APIError", <<"DeleteFirewallRules">>)
    ELSE IF ~GetOk(w.f.filter_id, "")
    THEN Outcome([w EXCEPT !.id = << >>], gone, "ok", <<"DeleteFirewallRules">>)
    ELSE IF ~filterSessOk
    THEN Swallowed(Outcome(w, gone, "ok", <<"DeleteFirewallRules">>))
    ELSE IF faultFilter \/ ~rem.aux
    THEN Outcome(w, gone, "APIError", <<"DeleteFirewallRules", "DeleteFilters">>)
    ELSE Outcome([w EXCEPT !.id = << >>], NoRemote, "ok",
                 <<"DeleteFirewallRules", "DeleteFilters">>)

(***************************************************************************)
(* Power network: address arithmetic (generateIPData).  An IPv4 address is *)
(* its 32-bit number; a CIDR is <<address, prefix length>>, << >> when the *)
(* field is unset and <<-1>> when the text does not parse.                 *)
(***************************************************************************)
AddrBits == 32

\* net.ParseCIDR: the network of the block, host bits cleared.
ParseCIDR(c) ==
    IF Len(c) # 2 THEN [err |-> TRUE, base |-> 0, len |-> 0]
    ELSE LET size == 2 ^ (AddrBits - c[2]) IN
         [err |-> FALSE, base |-> (c[1] \div size) * size, len |-> c[2]]

\* cidr.AddressCount
AddressCount(n) == 2 ^ (AddrBits - n.len)

\* cidr.Host: the num-th address of the block; a negative num counts back
\* from the last address (-1 is the last); a number beyond the block is an
\* error.  (A negative num reaching below the block is not reached from
\* generateIPData, whose Host(net, 4) fails first, and is reported as an error.)
CidrHost(n, num) ==
    LET maxHostNum == 2 ^ (AddrBits - n.len) - 1
        k == IF num < 0 THEN maxHostNum - (-num - 1) ELSE num
    IN IF k > maxHostNum \/ k < 0 THEN [err |-> TRUE, ip |-> 0]
       ELSE [err |-> FALSE, ip |-> n.base + k]

\* A size table whose lookup always hits the entry of a /24.
SubnetToSizeHit(key) == 2 ^ (AddrBits - 24)

\* The subnetToSize map of generateIPData, looked up with the decimal text of
\* a number: the keys are "21" .. "31", a missing key yields 0.
SubnetToSize(key) == IF key \in 21..31 THEN 2 ^ (AddrBits - key) ELSE 0

IPError == [err |-> TRUE, gway |-> 0, firstip |-> 0, lastip |-> 0]

\* generateIPData
generateIPData(cdir) ==
    LET ipv4Net == ParseCIDR(cdir) IN
    IF ipv4Net.err THEN IPError
    ELSE LET gateway == CidrHost(ipv4Net, 1) IN
    IF gateway.err THEN IPError
    ELSE LET ad == AddressCount(ipv4Net)
             firstusable == CidrHost(ipv4Net, 4)
         IN
    IF firstusable.err THEN IPError
    ELSE LET lastusable == CidrHost(ipv4Net, SubnetToSize(ad) - 2) IN
    IF lastusable.err THEN IPError
    ELSE [err |-> FALSE, gway |-> gateway.ip, firstip |-> firstusable.ip,
          lastip |-> lastusable.ip]

(***************************************************************************)
(* Power network: the poll-converge waits.  A wait is a StateChangeConf    *)
(* (its pending and target labels and its not-found budget) run by         *)
(* WaitForStateContext over a refresh function; a refresh function turns   *)
(* one vendor answer into (snapshot, label, error).  res says whether the  *)
(* snapshot is a non-nil interface value.                                  *)
(***************************************************************************)
Refreshed(res, state, err) == [res |-> res, state |-> state, err |-> err]

\* StateChangeConf.NotFoundChecks when the configuration leaves it unset.
DefaultNotFoundChecks == 20

\* The Retries constant of the power package (its value is not part of the
\* handlers; the waits are checked for this budget and the next larger one,
\* both smaller than the number of refreshes the timeout allows).
Retries == 1

\* The longest configured timeout, counted in refresh invocations it allows.
MaxPolls == 3

\* isWaitForIBMPINetworkAvailable
AvailableConf ==
    [pending |-> {"retry", "build"}, target |-> {"available"},
     notFoundChecks |-> DefaultNotFoundChecks, retry |-> FALSE]

\* isWaitForIBMPINetworkDeleted
DeletedConf ==
    [pending |-> {"found"}, target |-> {"not_found"},
     notFoundChecks |-> DefaultNotFoundChecks, retry |-> FALSE]

\* isWaitForIBMPINetworkUpdated
UpdatedConf ==
    [pending |-> {"retry"}, target |-> {"available"},
     notFoundChecks |-> DefaultNotFoundChecks, retry |-> FALSE]

\* waitForPERWorkspaceActive
PERConf ==
    [pending |-> {"inactive", "configuring"}, target |-> {"active"},
     notFoundChecks |-> DefaultNotFoundChecks, retry |-> FALSE]

\* createNetworkWithRetry
CreateRetryConf ==
    [pending |-> {"retry"}, target |-> {"active", "failed"},
     notFoundChecks |-> Retries, retry |-> TRUE]

\* A delete retry wrapper that leaves NotFoundChecks at its default.
DeleteRetryUnbudgeted ==
    [pending |-> {"retry"}, target |-> {"not_found"},
     notFoundChecks |-> DefaultNotFoundChecks, retry |-> TRUE]

\* deleteNetworkWithRetry
DeleteRetryConf ==
    [pending |-> {"retry"}, target |-> {"not_found"},
     notFoundChecks |-> Retries, retry |-> TRUE]

WaitConf ==
    [available |-> AvailableConf, deleted |-> DeletedConf, updated |-> UpdatedConf,
     per |-> PERConf, create |-> CreateRetryConf, delete |-> DeleteRetryConf]

\* A refresh function that never sees the VLAN id.
isIBMPINetworkRefreshNeverAvailable(get) ==
    IF get = "err" THEN Refreshed(FALSE, "", TRUE)
    ELSE Refreshed(TRUE, "build", FALSE)

\* isIBMPINetworkRefreshFunc; get is the answer of client.Get: "err", or the
\* network with its VLAN id absent ("build") or present ("available").
isIBMPINetworkRefreshFunc(get) ==
    IF get = "err" THEN Refreshed(FALSE, "", TRUE)
    ELSE IF get = "available" THEN Refreshed(TRUE, "available", FALSE)
    ELSE Refreshed(TRUE, "build", FALSE)

\* A deletion refresh function that reports a failed Get as the other refresh
\* functions do.
isIBMPINetworkRefreshDeleteStrict(get) ==
    IF get # "found" THEN Refreshed(FALSE, "", TRUE)
    ELSE Refreshed(TRUE, "found", FALSE)

\* isIBMPINetworkRefreshDeleteFunc; get is the answer of client.Get: "found",
\* or an error, "notfound" or another one ("err").  The snapshot is the
\* (typed) network pointer, a non-nil interface value also when Get failed.
isIBMPINetworkRefreshDeleteFunc(get) ==
    IF get # "found" THEN Refreshed(TRUE, "not_found", FALSE)
    ELSE Refreshed(TRUE, "found", FALSE)

\* A refresh function that takes the router state "error" for a pending one.
isPERWorkspaceRefreshLenient(get) ==
    IF get = "err" THEN Refreshed(FALSE, "", TRUE)
    ELSE IF get \in {Nil, "active"} THEN Refreshed(TRUE, "active", FALSE)
    ELSE IF get = "inactive" THEN Refreshed(TRUE, "inactive", FALSE)
    ELSE Refreshed(TRUE, "configuring", FALSE)

\* isPERWorkspaceRefreshFunc; get is "err" or the state of the workspace's
\* power edge router, Nil for a legacy workspace without one.
isPERWorkspaceRefreshFunc(get) ==
    IF get = "err" THEN Refreshed(FALSE, "", TRUE)
    ELSE IF get = Nil THEN Refreshed(TRUE, "active", FALSE)
    ELSE IF get = "active" THEN Refreshed(TRUE, "active", FALSE)
    ELSE IF get = "inactive" THEN Refreshed(TRUE, "inactive", FALSE)
    ELSE IF get = "error" THEN Refreshed(TRUE, "error", TRUE)
    ELSE Refreshed(TRUE, "configuring", FALSE)

\* A creation refresh that classifies every failure as pending.
retryNetworkCreationAlways(resp) ==
    IF resp # "ok" THEN Refreshed(FALSE, "retry", FALSE)
    ELSE Refreshed(TRUE, "active", FALSE)

\* retryNetworkCreationFunc; resp is the answer of client.Create: "ok",
\* "400" (bad request), "422" (unprocessable entity) or another failure.
retryNetworkCreationFunc(resp) ==
    IF resp # "ok"
    THEN IF resp \in {"400", "422"} THEN Refreshed(FALSE, "failed", TRUE)
         ELSE Refreshed(FALSE, "retry", FALSE)
    ELSE Refreshed(TRUE, "active", FALSE)

\* retryNetworkDeleteFunc; resp is the answer of client.Delete: "ok", an
\* error whose text contains NotFound ("notfound"), or another failure.
retryNetworkDeleteFunc(resp) ==
    IF resp # "ok" /\ resp # "notfound" THEN Refreshed(FALSE, "retry", FALSE)
    ELSE Refreshed(TRUE, "not_found", FALSE)

\* A wait that has not started, and the start of the wait `name`.  hist lists the vendor answers the
\* refresh function received; snap is the invocation whose snapshot the wait
\* returned (0: none); ret is what the wait function returns to its caller.
NoWait ==
    [name |-> "none", polls |-> 0, notfound |-> 0, hist |-> << >>,
     done |-> "none", snap |-> 0, ret |-> "none", lastErr |-> ""]

StartWait(name) == [NoWait EXCEPT !.name = name, !.done = "running"]

\* A wait function that drops the error of its loop.
WaitReturnDropped(conf, done) == IF done = "running" THEN done ELSE "ok"

\* What the wait function hands to its caller once the loop has ended: the
\* two retry wrappers replace every error by one carrying lastErr.
WaitReturn(conf, done) ==
    IF done \in {"running", "ok"} THEN done
    ELSE IF conf.retry THEN "LastErr"
    ELSE done

\* One iteration of StateChangeConf.WaitForStateContext: the refresh function
\* returned r for the vendor answer `answer`.
PollStep(conf, w, answer, r) ==
    LET w1 == [w EXCEPT !.polls = @ + 1, !.hist = Append(@, answer)]
        end(x, done, snap) ==
            [x EXCEPT !.done = done, !.snap = snap, !.ret = WaitReturn(conf, done)]
    IN
    IF r.err THEN end(w1, "RefreshError", 0)
    ELSE IF ~r.res
    THEN IF w1.notfound + 1 > conf.notFoundChecks
         THEN end([w1 EXCEPT !.notfound = @ + 1], "NotFoundError", 0)
         ELSE [w1 EXCEPT !.notfound = @ + 1]
    ELSE LET w2 == [w1 EXCEPT !.notfound = 0] IN
         IF r.state \in conf.target THEN end(w2, "ok", w2.polls)
         ELSE IF r.state \in conf.pending THEN w2
         ELSE end(w2, "UnexpectedState", 0)

\* The timeout of the wait elapses while the loop is still pending.
PollTimeout(conf, w) ==
    [w EXCEPT !.done = "Timeout", !.ret = WaitReturn(conf, "Timeout")]

(***************************************************************************)
(* Power network: requests and the update-convergence refresh function.    *)
(* An unset gateway (the empty string, a nil pointer) is -1; DNS servers   *)
(* are addresses; an address range is <<first, last>>.                     *)
(***************************************************************************)
Range(s) == {s[i] : i \in 1..Len(s)}

\* flex.ExpandStringList(set.List()): the members of a set in the order the
\* set's hashing yields, here from the largest down.
RECURSIVE SetToList(_)
SetToList(S) ==
    IF S = {} THEN << >>
    ELSE LET m == CHOOSE x \in S : \A y \in S : y <= x IN
         <<m>> \o SetToList(S \ {m})

\* The order of two texts; a text is the tuple of the numbers it spells, <<a>>
\* for an address and <<first, last>> for the "first-last" text of a range.
RangeLessEq(a, b) ==
    a[1] < b[1] \/ (a[1] = b[1] /\ (Len(a) = 1 \/ a[2] <= b[2]))

\* sort.Strings: the ascending arrangement of the texts of s.
SortStrings(s) ==
    LET p == CHOOSE q \in Permutations(1..Len(s)) :
                 \A i \in 1..(Len(s) - 1) : RangeLessEq(s[q[i]], s[q[i + 1]])
    IN [i \in 1..Len(s) |-> s[p[i]]]

\* isIBMPINetworkRefreshUpdateFunc; get is "err" or "net", network the
\* network client.Get returned, updateBody the request Update sent.
isIBMPINetworkRefreshUpdateFunc(get, network, updateBody) ==
    IF get = "err" THEN Refreshed(FALSE, "", TRUE)
    ELSE IF updateBody.advertise # "" /\ updateBody.advertise # network.advertise
    THEN Refreshed(TRUE, "retry", FALSE)
    ELSE IF updateBody.arp # "" /\ updateBody.arp # network.arp
    THEN Refreshed(TRUE, "retry", FALSE)
    ELSE IF /\ Len(updateBody.dns) > 0
            /\ \/ Len(updateBody.dns) # Len(network.dns)
               \/ LET n == SortStrings([i \in 1..Len(network.dns) |->
                                              <<network.dns[i]>>]) IN
                  \E index \in 1..Len(n) : n[index] # n[index]
    THEN Refreshed(TRUE, "retry", FALSE)
    ELSE IF updateBody.gateway # -1 /\ updateBody.gateway # network.gateway
    THEN Refreshed(TRUE, "retry", FALSE)
    ELSE IF /\ Len(updateBody.ranges) > 0
            /\ \/ Len(updateBody.ranges) # Len(network.ranges)
               \/ LET u == SortStrings(updateBody.ranges)
                      n == SortStrings(network.ranges)
                  IN \E index \in 1..Len(u) : u[index] # n[index]
    THEN Refreshed(TRUE, "retry", FALSE)
    ELSE IF updateBody.name # Nil /\ updateBody.name # network.name
    THEN Refreshed(TRUE, "retry", FALSE)
    ELSE Refreshed(TRUE, "available", FALSE)

PIZero ==
    [cloud_instance_id |-> "", name |-> "", type |-> "", cidr |-> << >>,
     gateway |-> -1, dns |-> {}, tags |-> {}, crn |-> "", ranges |-> << >>,
     advertise |-> "", arp |-> ""]

\* The configurations tried: 10.0.0.5/24 is the CIDR, <<-1>> a text that does
\* not parse, 10.0.0.9 the gateway, 8 and 9 the DNS servers; advertise and
\* arp broadcast have the defaults of the schema and no address range is
\* configured unless said.
PIConfig(name, type, cidr, gateway, dns, tags) ==
    [cloud_instance_id |-> "i1", name |-> name, type |-> type, cidr |-> cidr,
     gateway |-> gateway, dns |-> dns, tags |-> tags, crn |-> "",
     ranges |-> << >>, advertise |-> "enable", arp |-> "disable"]

\* 10.0.0.20 - 10.0.0.30 and 10.0.0.40 - 10.0.0.50
RangesTried == <<<<167772200, 167772210>>, <<167772180, 167772190>>>>

PIConfigs ==
    {PIConfig("n1", "vlan", <<167772165, 24>>, -1, {}, {}),
     PIConfig("n2", "vlan", <<167772165, 24>>, 167772169, {8, 9}, {"t1"}),
     [PIConfig("n1", "vlan", <<167772165, 24>>, -1, {}, {})
         EXCEPT !.ranges = RangesTried, !.advertise = "disable"],
     PIConfig("n1", "vlan", << >>, -1, {}, {}),
     PIConfig("n1", "vlan", <<-1>>, -1, {}, {}),
     PIConfig("n1", "pub-vlan", << >>, -1, {8, 9}, {}),
     PIConfig("n1", "pub-vlan", << >>, 167772169, {}, {}),
     PIConfig("n1", "pub-vlan", <<167772165, 24>>, -1, {}, {})}

\* The values an update plans: an Optional and Computed field that the
\* configuration leaves unset keeps the value the record has.
PIPlan(old, c) ==
    [c EXCEPT !.crn = old.crn,
              !.cidr = IF @ = << >> THEN old.cidr ELSE @,
              !.gateway = IF @ = -1 THEN old.gateway ELSE @,
              !.dns = IF @ = {} THEN old.dns ELSE @,
              !.ranges = IF @ = << >> THEN old.ranges ELSE @,
              !.tags = IF @ = {} THEN old.tags ELSE @]

\* A Create that sends its request without checking the CIDR.
PICreateBodyUnchecked(c) ==
    [out |-> "ok",
     body |-> [type |-> c.type, name |-> c.name, dns |-> << >>, tags |-> c.tags,
               cidr |-> c.cidr, gateway |-> c.gateway, ranges |-> << >>,
               advertise |-> "", arp |-> ""]]

\* The checks and the request body of resourceIBMPINetworkCreate, up to the
\* first vendor call.
PICreateBody(c) ==
    LET dnsList == IF GetOk(c.dns, {}) THEN SetToList(c.dns) ELSE << >>
        body == [type |-> c.type, name |-> c.name, dns |-> dnsList,
                 tags |-> c.tags, cidr |-> << >>, gateway |-> -1, ranges |-> << >>,
                 advertise |-> "", arp |-> ""]
    IN
    IF c.type = "vlan"
    THEN IF ~GetOk(c.cidr, << >>) THEN [out |-> "ValidationError", body |-> body]
         ELSE LET g == generateIPData(c.cidr) IN
         IF g.err THEN [out |-> "ParseError", body |-> body]
         ELSE [out |-> "ok",
               body |-> [body EXCEPT
                           !.ranges = IF GetOk(c.ranges, << >>) THEN c.ranges
                                      ELSE <<<<g.firstip, g.lastip>>>>,
                           !.gateway = IF GetOk(c.gateway, -1) THEN c.gateway
                                       ELSE g.gway,
                           !.cidr = c.cidr]]
    ELSE IF GetOk(c.cidr, << >>) THEN [out |-> "ValidationError", body |-> body]
    ELSE [out |-> "ok", body |-> body]

NoUpdate ==
    [advertise |-> "", arp |-> "", dns |-> << >>, gateway |-> -1,
     ranges |-> << >>, name |-> Nil]

\* An Update that sends every field of the planned values, changed or not.
PIUpdateBodyAll(old, c) ==
    [out |-> "ok", call |-> TRUE,
     body |-> [advertise |-> c.advertise, arp |-> c.arp, dns |-> SetToList(c.dns),
               gateway |-> c.gateway, ranges |-> c.ranges, name |-> c.name]]

\* An Update that sends whatever changed, whatever the network type.
PIUpdateBodyUnchecked(old, c) ==
    [out |-> "ok", call |-> TRUE,
     body |-> [NoUpdate EXCEPT !.gateway = c.gateway, !.ranges = c.ranges]]

\* The checks and the request body of resourceIBMPINetworkUpdate; call says
\* whether the handler goes on to client.Update.
PIUpdateBody(old, c) ==
    IF ~HasChange(old, c, {"advertise", "arp", "dns", "gateway", "ranges", "name"})
    THEN [out |-> "ok", call |-> FALSE, body |-> NoUpdate]
    ELSE LET b1 == [NoUpdate EXCEPT
                      !.advertise = IF HasChange(old, c, {"advertise"})
                                    THEN c.advertise ELSE @,
                      !.arp = IF HasChange(old, c, {"arp"}) THEN c.arp ELSE @,
                      !.dns = IF HasChange(old, c, {"dns"})
                              THEN SetToList(c.dns) ELSE @]
             b2 == [b1 EXCEPT
                      !.ranges = IF HasChange(old, c, {"ranges"})
                                 THEN c.ranges ELSE @,
                      !.gateway = IF HasChange(old, c, {"gateway"})
                                  THEN c.gateway ELSE @]
             b3 == IF HasChange(old, c, {"name"})
                   THEN [b2 EXCEPT !.name = c.name] ELSE b2
         IN
         IF HasChange(old, c, {"ranges", "gateway"}) /\ c.type # "vlan"
         THEN [out |-> "ValidationError", call |-> FALSE, body |-> b1]
         ELSE [out |-> "ok", call |-> TRUE, body |-> b3]

\* splitID of the power package: the two segments of "cloudInstanceID/networkID".
splitID(id) ==
    LET parts == Split(id) IN
    IF Len(parts) < 2 THEN [err |-> TRUE, a |-> "", b |-> ""]
    ELSE [err |-> FALSE, a |-> parts[1], b |-> parts[2]]

\* The network the vendor creates from a request: no VLAN id until it is built.
PINetwork(ci, body, crn) ==
    [exists |-> TRUE, key |-> <<ci, NewID>>, aux |-> FALSE,
     f |-> [name |-> body.name, type |-> body.type, cidr |-> body.cidr,
            gateway |-> body.gateway, dns |-> body.dns, ranges |-> body.ranges,
            advertise |-> body.advertise, arp |-> body.arp,
            tags |-> body.tags, crn |-> crn,
            vlan |-> Nil, pend |-> NoUpdate, deleting |-> FALSE]]

\* The vendor works off what it was asked asynchronously: it assigns the VLAN
\* id, applies a pending update, removes a network being deleted.
Progress(rem) ==
    IF ~rem.exists THEN rem
    ELSE IF rem.f.deleting THEN NoRemote
    ELSE LET b == rem.f.pend IN
         [rem EXCEPT !.f =
             [@ EXCEPT !.vlan = "v1",
                       !.dns = IF Len(b.dns) > 0 THEN b.dns ELSE @,
                       !.gateway = IF b.gateway # -1 THEN b.gateway ELSE @,
                       !.name = IF b.name # Nil THEN b.name ELSE @,
                       !.ranges = IF Len(b.ranges) > 0 THEN b.ranges ELSE @,
                       !.advertise = IF b.advertise # "" THEN b.advertise ELSE @,
                       !.arp = IF b.arp # "" THEN b.arp ELSE @,
                       !.pend = NoUpdate]]

(***************************************************************************)
(* The record's life: the handlers of the four resource types whose        *)
(* handlers make at most two vendor calls run as one step each.            *)
(***************************************************************************)
Kinds == {"glb", "pn", "mtls", "fw", "pi"}

\* The handler invocations one record's life is followed through.
MaxOps == 2

NoLast ==
    [op |-> "none", out |-> "none", calls |-> << >>, id0 |-> << >>,
     had |-> FALSE, changed |-> FALSE, faulty |-> FALSE, failed |-> FALSE,
     tagFailed |-> FALSE, sent |-> {}]

\* The key under which the vendor finds the entity a record's identity names.
KeyOf(k, id) ==
    IF k \in {"mtls", "fw"}
    THEN LET p == ConvertTfToCisThreeVar(id) IN <<p.crn, p.zone, p.a>>
    ELSE Split(id)

Had(k, id, rem) == rem.exists /\ rem.key = KeyOf(k, id)

\* The identities an import may hand to Read: too short, well formed and
\* naming the entity, well formed and naming nothing.
ImportIds(k) ==
    CASE k \in {"glb", "pi"} -> {<<"i1">>, <<"i1", "e1">>, <<"i1", "e0">>}
      [] k = "pn" -> {<<"i1">>, <<"i1", "z1">>, <<"i1", "z1", "e1">>}
      [] OTHER -> {<<"e1">>, <<"e1", "z1">>, <<"e1", "z1", "crn1">>}

\* A handler taking one step: its outcome becomes the state.
Ran(op, r, changed, faulty) ==
    /\ d' = r.d
    /\ remote' = r.rem
    /\ last' = [op |-> op, out |-> r.out, calls |-> r.calls, id0 |-> d.id,
                had |-> Had(kind, d.id, remote), changed |-> changed,
                faulty |-> faulty, failed |-> r.failed, tagFailed |-> FALSE,
                sent |-> r.sent]
    /\ ops < MaxOps
    /\ ops' = ops + 1
    /\ UNCHANGED <<kind, th, mu, sess, site, pc, loc, wait, ip>>

Fresh(c) == [id |-> << >>, f |-> c]

\* suppressDomainIDDiff: two domain ids naming the same zone are no change.
SameDomain(a, b) == ConvertTftoCisTwoVar(a).a = ConvertTftoCisTwoVar(b).a

\* The values an update plans from the configuration c: an Optional and
\* Computed field left unset keeps the record's value, and so does a field
\* whose difference is suppressed.
Plan(k, old, c) ==
    CASE k = "glb" -> [c EXCEPT !.port = IF @ = "0" THEN old.port ELSE @]
      [] k = "fw" ->
           [c EXCEPT !.priority = IF @ = "0" THEN old.priority ELSE @,
                     !.domain_id = IF SameDomain(@, old.domain_id)
                                   THEN old.domain_id ELSE @]
      [] k = "mtls" ->
           [c EXCEPT !.domain_id = IF SameDomain(@, old.domain_id)
                                   THEN old.domain_id ELSE @]
      [] k = "pi" -> PIPlan(old, c)
      [] OTHER -> c

Planned(c) == [id |-> d.id, f |-> Plan(kind, d.f, c)]

GLBCreate ==
    /\ kind = "glb" /\ d.id = << >>
    /\ \E c \in GLBConfigs, sessOk, fault, faultRead \in BOOLEAN :
          /\ cfg' = c
          /\ Ran("Create", GLBCreateOp(Fresh(c), remote, sessOk, fault, faultRead),
                 FALSE,
                 ~sessOk \/ fault \/ faultRead)

GLBRead ==
    /\ kind = "glb" /\ d.id # << >>
    /\ \E sessOk, fault, faultRead \in BOOLEAN :
          Ran("Read",
              Refresh(GLBExistsOp(d, remote, sessOk, fault), d, remote,
                      GLBReadOp(d, remote, TRUE, faultRead)),
              FALSE,
              ~sessOk \/ fault \/ faultRead)
    /\ UNCHANGED cfg

GLBUpdate ==
    /\ kind = "glb" /\ d.id # << >>
    /\ \E c \in GLBConfigs, sessOk, fault, faultRead \in BOOLEAN :
          /\ cfg' = c
          /\ Ran("Update",
                 GLBUpdateOp(d.f, Planned(c), remote, sessOk, fault, faultRead),
                 Plan(kind, d.f, c) # d.f,
                 ~sessOk \/ fault \/ faultRead)

GLBDelete ==
    /\ kind = "glb" /\ d.id # << >>
    /\ \E sessOk, fault \in BOOLEAN :
          Ran("Delete", GLBDeleteOp(d, remote, sessOk, fault), FALSE,
                 ~sessOk \/ fault)
    /\ UNCHANGED cfg

PNCreate ==
    /\ kind = "pn" /\ d.id = << >>
    /\ \E c \in PNConfigs, sessOk, vpcOk, fault, faultRead \in BOOLEAN :
          /\ cfg' = c
          /\ Ran("Create",
                 PNCreateOp(Fresh(c), remote, sessOk, vpcOk, fault, faultRead),
                 FALSE,
                 ~sessOk \/ ~vpcOk \/ fault \/ faultRead)

PNRead ==
    /\ kind = "pn" /\ d.id # << >>
    /\ \E sessOk, fault, faultRead \in BOOLEAN :
          Ran("Read",
              Refresh(PNExistsOp(d, remote, sessOk, fault), d, remote,
                      PNReadOp(d, remote, TRUE, faultRead)),
              FALSE,
              ~sessOk \/ fault \/ faultRead)
    /\ UNCHANGED cfg

PNDelete ==
    /\ kind = "pn" /\ d.id # << >>
    /\ \E sessOk, fault \in BOOLEAN :
          Ran("Delete", PNDeleteOp(d, remote, sessOk, fault), FALSE,
                 ~sessOk \/ fault)
    /\ UNCHANGED cfg

Answers == {"ok", "fail", "empty"}

MtlsCreate ==
    /\ kind = "mtls" /\ d.id = << >>
    /\ \E c \in MtlsConfigs, sessOk, faultRead \in BOOLEAN, resp \in Answers :
          /\ cfg' = c
          /\ Ran("Create", MtlsCreateOp(Fresh(c), remote, sessOk, resp, faultRead),
                 FALSE,
                 ~sessOk \/ faultRead \/ resp # "ok")

MtlsRead ==
    /\ kind = "mtls" /\ d.id # << >>
    /\ \E sessOk, fault \in BOOLEAN :
          Ran("Read", MtlsReadOp(d, remote, sessOk, fault), FALSE,
                 ~sessOk \/ fault)
    /\ UNCHANGED cfg

MtlsUpdate ==
    /\ kind = "mtls" /\ d.id # << >>
    /\ \E c \in MtlsConfigs, sessOk, fault, faultRead \in BOOLEAN :
          /\ cfg' = c
          /\ Ran("Update",
                 MtlsUpdateOp(d.f, Planned(c), remote, sessOk, fault, faultRead),
                 Plan(kind, d.f, c) # d.f,
                 ~sessOk \/ fault \/ faultRead)

MtlsDelete ==
    /\ kind = "mtls" /\ d.id # << >>
    /\ \E sessOk, fault \in BOOLEAN :
          Ran("Delete", MtlsDeleteOp(d, remote, sessOk, fault), FALSE,
                 ~sessOk \/ fault)
    /\ UNCHANGED cfg

FWCreate ==
    /\ kind = "fw" /\ d.id = << >>
    /\ \E c \in FWConfigs, sessOk, faultRead \in BOOLEAN, resp \in Answers :
          /\ cfg' = c
          /\ Ran("Create", FWCreateOp(Fresh(c), remote, sessOk, resp, faultRead),
                 FALSE,
                 ~sessOk \/ faultRead \/ resp # "ok")

FWRead ==
    /\ kind = "fw" /\ d.id # << >>
    /\ \E sessOk, fault \in BOOLEAN :
          Ran("Read", FWReadOp(d, remote, sessOk, fault), FALSE,
                 ~sessOk \/ fault)
    /\ UNCHANGED cfg

FWUpdate ==
    /\ kind = "fw" /\ d.id # << >>
    /\ \E c \in FWConfigs, sessOk, faultRead \in BOOLEAN, resp \in Answers :
          /\ cfg' = c
          /\ Ran("Update",
                 FWUpdateOp(d.f, Planned(c), remote, sessOk, resp, faultRead),
                 Plan(kind, d.f, c) # d.f,
                 ~sessOk \/ faultRead \/ resp # "ok")

FWDelete ==
    /\ kind = "fw" /\ d.id # << >>
    /\ \E sessOk, fault, filterSessOk, faultFilter \in BOOLEAN :
          Ran("Delete",
              FWDeleteOp(d, remote, sessOk, fault, filterSessOk, faultFilter),
              FALSE,
              ~sessOk \/ fault \/ ~filterSessOk \/ faultFilter)
    /\ UNCHANGED cfg

(***************************************************************************)
(* The Power network handlers run step by step: every vendor call and      *)
(* every refresh of a wait is one step.  While a handler runs last.out is  *)
(* "running"; pc is the place the handler has reached.                     *)
(***************************************************************************)
NoLoc == [body |-> NoUpdate, net |-> << >>, tagsChanged |-> FALSE]

Begin(op, out, changed) ==
    /\ ops < MaxOps
    /\ ops' = ops + 1
    /\ last' = [op |-> op, out |-> out, calls |-> << >>, id0 |-> d.id,
                had |-> Had(kind, d.id, remote), changed |-> changed,
                faulty |-> (out = "ClientInitializationError"),
                failed |-> (out = "ClientInitializationError"),
                tagFailed |-> FALSE, sent |-> {}]

\* The handler makes the vendor call `call` and returns out, or goes on.  The
\* repeated calls of one wait's loop are listed once; the wait counts them.
\* fault says that the vendor failed (other than by answering "not found");
\* last.failed follows the latest call, so that a failed call whose retry
\* succeeded is not counted as a failed step of the handler.
Called(call, out, fault) ==
    last' = [last EXCEPT
               !.calls = IF @ # << >> /\ @[Len(@)] = call THEN @ ELSE Append(@, call),
               !.out = out,
               !.faulty = @ \/ fault,
               !.failed = fault]

\* resourceIBMPINetworkCreate up to its first vendor call.
PICreate ==
    /\ kind = "pi" /\ pc = "idle" /\ d.id = << >>
    /\ \E c \in PIConfigs, sessOk \in BOOLEAN :
          LET v == PICreateBody(c)
              out == IF ~sessOk THEN "ClientInitializationError"
                     ELSE IF v.out # "ok" THEN v.out ELSE "running"
              to == IF out # "running" THEN "idle"
                    ELSE IF site = "onprem" THEN "c_create" ELSE "c_ws"
          IN /\ cfg' = c
             /\ d' = Fresh(c)
             /\ Begin("Create", out, FALSE)
             /\ loc' = [NoLoc EXCEPT !.body = v.body]
             /\ pc' = to
             /\ wait' = IF to = "c_create" THEN StartWait("create")
                        ELSE NoWait
    /\ UNCHANGED <<kind, th, mu, sess, remote, site, ip>>

\* wsclient.Get of Create and Read: the workspace and its PER capability.
PIWorkspaceGet ==
    /\ pc \in {"c_ws", "r_ws"}
    /\ \E fault \in BOOLEAN :
          LET to == IF fault THEN "idle"
                    ELSE IF site = "per"
                    THEN (IF pc = "c_ws" THEN "c_per" ELSE "r_per")
                    ELSE (IF pc = "c_ws" THEN "c_create" ELSE "r_set")
          IN /\ Called("WorkspaceGet", IF fault THEN "APIError" ELSE "running", fault)
             /\ pc' = to
             /\ wait' = CASE to \in {"c_per", "r_per"} -> StartWait("per")
                          [] to = "c_create" -> StartWait("create")
                          [] OTHER -> wait
    /\ UNCHANGED <<kind, th, mu, sess, ops, d, cfg, remote, site, loc, ip>>

PERAnswers == {"err", Nil, "active", "inactive", "configuring", "error"}

\* One refresh of waitForPERWorkspaceActive.
PIPollPER ==
    /\ pc \in {"c_per", "r_per"}
    /\ wait.done = "running" /\ wait.polls < MaxPolls
    /\ \E get \in PERAnswers :
          LET w == PollStep(PERConf, wait, get, isPERWorkspaceRefreshFunc(get)) IN
          /\ wait' = w
          /\ Called("WorkspaceGet",
                    IF w.done \in {"running", "ok"} THEN "running" ELSE w.ret, get \in {"err", "error"})
          /\ pc' = IF w.done \in {"running", "ok"} THEN pc ELSE "idle"
    /\ UNCHANGED <<kind, th, mu, sess, ops, d, cfg, remote, site, loc, ip>>

CreateAnswers == {"ok", "400", "422", "500"}

\* One refresh of createNetworkWithRetry: client.Create.
PIPollCreate ==
    /\ pc = "c_create"
    /\ wait.done = "running" /\ wait.polls < MaxPolls
    /\ \E resp \in CreateAnswers, crn \in {"", "crn1"} :
          LET w0 == PollStep(CreateRetryConf, wait, resp,
                             retryNetworkCreationFunc(resp))
              w == [w0 EXCEPT !.lastErr = IF resp # "ok" THEN resp ELSE @]
          IN /\ wait' = w
             /\ remote' = IF resp = "ok"
                          THEN PINetwork(d.f.cloud_instance_id, loc.body, crn)
                          ELSE remote
             /\ Called("NetworkCreate",
                       IF w.done \in {"running", "ok"} THEN "running" ELSE w.ret, resp # "ok")
             /\ pc' = IF w.done \in {"running", "ok"} THEN pc ELSE "idle"
    /\ UNCHANGED <<kind, th, mu, sess, ops, d, cfg, site, loc, ip>>

\* One refresh of isWaitForIBMPINetworkAvailable: client.Get.
PIPollAvailable ==
    /\ pc = "c_avail"
    /\ wait.done = "running" /\ wait.polls < MaxPolls
    /\ \E fault, prog \in BOOLEAN :
          LET rem == IF prog THEN Progress(remote) ELSE remote
              get == IF fault \/ ~Had(kind, d.id, rem) THEN "err"
                     ELSE IF rem.f.vlan # Nil THEN "available" ELSE "build"
              w == PollStep(AvailableConf, wait, get, isIBMPINetworkRefreshFunc(get))
          IN /\ wait' = w
             /\ remote' = rem
             /\ Called("NetworkGet",
                       IF w.done \in {"running", "ok"} THEN "running" ELSE w.ret, fault)
             /\ pc' = IF w.done \in {"running", "ok"} THEN pc ELSE "idle"
    /\ UNCHANGED <<kind, th, mu, sess, ops, d, cfg, site, loc, ip>>

WaitPcs == {"c_per", "r_per", "c_create", "c_avail", "u_wait", "d_retry", "d_wait"}

Going(w) == w.done \in {"running", "ok"}

\* A Create that sets the identity only once the network is available.
PIAfterWaitLate ==
    /\ pc \in WaitPcs /\ wait.done = "ok"
    /\ LET to == CASE pc = "c_per" -> "c_create"
                      [] pc = "c_create" -> "c_avail"
                      [] pc = "c_avail" -> "c_tags"
                      [] pc = "u_wait" -> "u_tags"
                      [] pc = "r_per" -> "r_set"
                      [] pc = "d_retry" -> "d_wait"
                      [] OTHER -> "idle"
          IN /\ pc' = to
             /\ d' = CASE pc = "c_avail" ->
                            [d EXCEPT !.id = <<d.f.cloud_instance_id, NewID>>]
                       [] pc = "d_wait" -> [d EXCEPT !.id = << >>]
                       [] OTHER -> d
             /\ wait' = CASE to = "c_create" -> StartWait("create")
                          [] to = "c_avail" -> StartWait("available")
                          [] to = "d_wait" -> StartWait("deleted")
                          [] OTHER -> wait
             /\ last' = IF to = "idle" THEN [last EXCEPT !.out = "ok"] ELSE last
             /\ loc' = IF pc = "c_per" /\ d.f.type = "vlan"
                       THEN [loc EXCEPT
                               !.body.advertise =
                                   IF GetOk(d.f.advertise, "") THEN d.f.advertise ELSE @,
                               !.body.arp = IF GetOk(d.f.arp, "") THEN d.f.arp ELSE @]
                       ELSE loc
    /\ UNCHANGED <<kind, th, mu, sess, ops, cfg, remote, site, ip>>

\* A wait returned without error and the handler goes on: Create sets the
\* identity once the network is created, Delete clears it once it is gone.
PIAfterWait ==
    /\ pc \in WaitPcs /\ wait.done = "ok"
    /\ LET to == CASE pc = "c_per" -> "c_create"
                      [] pc = "c_create" -> "c_avail"
                      [] pc = "c_avail" -> "c_tags"
                      [] pc = "u_wait" -> "u_tags"
                      [] pc = "r_per" -> "r_set"
                      [] pc = "d_retry" -> "d_wait"
                      [] OTHER -> "idle"
          IN /\ pc' = to
             /\ d' = CASE pc = "c_create" ->
                            [d EXCEPT !.id = <<d.f.cloud_instance_id, NewID>>]
                       [] pc = "d_wait" -> [d EXCEPT !.id = << >>]
                       [] OTHER -> d
             /\ wait' = CASE to = "c_create" -> StartWait("create")
                          [] to = "c_avail" -> StartWait("available")
                          [] to = "d_wait" -> StartWait("deleted")
                          [] OTHER -> wait
             /\ last' = IF to = "idle" THEN [last EXCEPT !.out = "ok"] ELSE last
             /\ loc' = IF pc = "c_per" /\ d.f.type = "vlan"
                       THEN [loc EXCEPT
                               !.body.advertise =
                                   IF GetOk(d.f.advertise, "") THEN d.f.advertise ELSE @,
                               !.body.arp = IF GetOk(d.f.arp, "") THEN d.f.arp ELSE @]
                       ELSE loc
    /\ UNCHANGED <<kind, th, mu, sess, ops, cfg, remote, site, ip>>

\* The timeout of the running wait elapses.
PITimeout ==
    /\ pc \in WaitPcs
    /\ wait.done = "running" /\ wait.polls > 0
    /\ wait' = PollTimeout(WaitConf[wait.name], wait)
    /\ last' = [last EXCEPT !.out = wait'.ret]
    /\ pc' = "idle"
    /\ UNCHANGED <<kind, th, mu, sess, ops, d, cfg, remote, site, loc, ip>>

\* The tag update as it would be if its error were returned to the caller.
PITagsStrict ==
    /\ pc \in {"c_tags", "u_tags"}
    /\ \E fault \in BOOLEAN :
          LET crn == IF pc = "u_tags" THEN d.f.crn
                     ELSE IF remote.exists THEN remote.f.crn ELSE ""
              due == /\ IF pc = "u_tags" THEN loc.tagsChanged
                        ELSE GetOk(d.f.tags, {})
                     /\ crn # ""
          IN /\ last' = IF due
                        THEN [last EXCEPT !.calls = Append(@, "TagsUpdate"),
                                          !.out = IF fault THEN "APIError" ELSE @,
                                          !.faulty = @ \/ fault,
                                          !.tagFailed = @ \/ fault]
                        ELSE last
             /\ remote' = IF due /\ ~fault /\ remote.exists
                          THEN [remote EXCEPT !.f.tags = d.f.tags]
                          ELSE remote
             /\ pc' = IF due /\ fault THEN "idle" ELSE "r_get"
    /\ UNCHANGED <<kind, th, mu, sess, ops, d, cfg, site, loc, wait, ip>>

\* flex.UpdateGlobalTagsUsingCRN at the end of Create and Update; its failure
\* is logged only.
PITags ==
    /\ pc \in {"c_tags", "u_tags"}
    /\ \E fault \in BOOLEAN :
          LET crn == IF pc = "u_tags" THEN d.f.crn
                     ELSE IF remote.exists THEN remote.f.crn ELSE ""
              due == /\ IF pc = "u_tags" THEN loc.tagsChanged
                        ELSE GetOk(d.f.tags, {})
                     /\ crn # ""
          IN /\ last' = IF due
                        THEN [last EXCEPT !.calls = Append(@, "TagsUpdate"),
                                          !.faulty = @ \/ fault,
                                          !.tagFailed = @ \/ fault]
                        ELSE last
             /\ remote' = IF due /\ ~fault /\ remote.exists
                          THEN [remote EXCEPT !.f.tags = d.f.tags]
                          ELSE remote
    /\ pc' = "r_get"
    /\ UNCHANGED <<kind, th, mu, sess, ops, d, cfg, site, loc, wait, ip>>

\* resourceIBMPINetworkRead up to its first vendor call.
PIRead ==
    /\ kind = "pi" /\ pc = "idle" /\ d.id # << >>
    /\ \E sessOk \in BOOLEAN :
          LET out == IF ~sessOk THEN "ClientInitializationError"
                     ELSE IF splitID(d.id).err THEN "IdentityParseError"
                     ELSE "running"
          IN /\ Begin("Read", out, FALSE)
             /\ pc' = IF out = "running" THEN "r_get" ELSE "idle"
    /\ loc' = NoLoc
    /\ wait' = NoWait
    /\ UNCHANGED <<kind, th, mu, sess, d, cfg, remote, site, ip>>

\* networkC.Get of Read, and the tags of a network that has a CRN.
PIReadGet ==
    /\ pc = "r_get"
    /\ \E fault, tagFault \in BOOLEAN :
          LET ids == splitID(d.id)
              st == Status(remote, <<ids.a, ids.b>>, fault)
              crn == IF st = 200 THEN remote.f.crn ELSE ""
          IN /\ last' = [last EXCEPT
                           !.calls = @ \o (IF crn # "" THEN <<"NetworkGet", "TagsGet">>
                                           ELSE <<"NetworkGet">>),
                           !.out = IF st # 200 THEN "APIError" ELSE "running",
                           !.faulty = @ \/ fault \/ tagFault,
                           !.failed = fault]
             /\ d' = IF crn # ""
                     THEN [d EXCEPT !.f.crn = crn,
                                    !.f.tags = IF tagFault THEN {} ELSE remote.f.tags]
                     ELSE d
             /\ loc' = IF st = 200 THEN [loc EXCEPT !.net = remote.f] ELSE loc
             /\ pc' = IF st # 200 THEN "idle"
                      ELSE IF site = "onprem" THEN "r_set" ELSE "r_ws"
    /\ UNCHANGED <<kind, th, mu, sess, ops, cfg, remote, site, wait, ip>>

\* The d.Set calls that end Read.
PIReadSet ==
    /\ pc = "r_set"
    /\ d' = [d EXCEPT !.f.cidr = loc.net.cidr, !.f.dns = Range(loc.net.dns),
                      !.f.gateway = loc.net.gateway, !.f.name = loc.net.name,
                      !.f.type = loc.net.type, !.f.ranges = loc.net.ranges,
                      !.f.advertise = IF site = "per" /\ loc.net.type = "vlan"
                                      THEN loc.net.advertise ELSE @,
                      !.f.arp = IF site = "per" /\ loc.net.type = "vlan"
                                THEN loc.net.arp ELSE @]
    /\ last' = [last EXCEPT !.out = "ok"]
    /\ pc' = "idle"
    /\ UNCHANGED <<kind, th, mu, sess, ops, cfg, remote, site, loc, wait, ip>>

\* resourceIBMPINetworkUpdate up to its first vendor call.
PIUpdate ==
    /\ kind = "pi" /\ pc = "idle" /\ d.id # << >>
    /\ \E c \in PIConfigs, sessOk \in BOOLEAN :
          LET new == Plan(kind, d.f, c)
              v == PIUpdateBody(d.f, new)
              out == IF ~sessOk THEN "ClientInitializationError"
                     ELSE IF splitID(d.id).err THEN "IdentityParseError"
                     ELSE IF v.out # "ok" THEN v.out ELSE "running"
          IN /\ cfg' = c
             /\ d' = Planned(new)
             /\ Begin("Update", out, new # d.f)
             /\ loc' = [NoLoc EXCEPT !.body = v.body,
                                     !.tagsChanged = d.f.tags # new.tags]
             /\ pc' = IF out # "running" THEN "idle"
                      ELSE IF v.call THEN "u_call" ELSE "u_tags"
    /\ wait' = NoWait
    /\ UNCHANGED <<kind, th, mu, sess, remote, site, ip>>

\* client.Update
PIUpdateCall ==
    /\ pc = "u_call"
    /\ \E fault \in BOOLEAN :
          LET st == Status(remote, Split(d.id), fault) IN
          /\ Called("NetworkUpdate", IF st # 200 THEN "APIError" ELSE "running", fault)
          /\ remote' = IF st = 200 THEN [remote EXCEPT !.f.pend = loc.body]
                       ELSE remote
          /\ pc' = IF st = 200 THEN "u_wait" ELSE "idle"
          /\ wait' = IF st = 200 THEN StartWait("updated") ELSE wait
    /\ UNCHANGED <<kind, th, mu, sess, ops, d, cfg, site, loc, ip>>

\* One refresh of isWaitForIBMPINetworkUpdated: client.Get.
PIPollUpdated ==
    /\ pc = "u_wait"
    /\ wait.done = "running" /\ wait.polls < MaxPolls
    /\ \E fault, prog \in BOOLEAN :
          LET rem == IF prog THEN Progress(remote) ELSE remote
              get == IF fault \/ ~Had(kind, d.id, rem) THEN "err" ELSE "net"
              w == PollStep(UpdatedConf, wait, get,
                            isIBMPINetworkRefreshUpdateFunc(get, rem.f, loc.body))
          IN /\ wait' = w
             /\ remote' = rem
             /\ Called("NetworkGet", IF Going(w) THEN "running" ELSE w.ret, fault)
             /\ pc' = IF Going(w) THEN pc ELSE "idle"
    /\ UNCHANGED <<kind, th, mu, sess, ops, d, cfg, site, loc, ip>>

\* resourceIBMPINetworkDelete up to its first vendor call.
PIDelete ==
    /\ kind = "pi" /\ pc = "idle" /\ d.id # << >>
    /\ \E sessOk \in BOOLEAN :
          LET out == IF ~sessOk THEN "ClientInitializationError"
                     ELSE IF splitID(d.id).err THEN "IdentityParseError"
                     ELSE "running"
          IN /\ Begin("Delete", out, FALSE)
             /\ pc' = IF out = "running" THEN "d_retry" ELSE "idle"
             /\ wait' = IF out = "running" THEN StartWait("delete")
                        ELSE NoWait
    /\ loc' = NoLoc
    /\ UNCHANGED <<kind, th, mu, sess, d, cfg, remote, site, ip>>

\* One refresh of deleteNetworkWithRetry: client.Delete.
PIPollDelete ==
    /\ pc = "d_retry"
    /\ wait.done = "running" /\ wait.polls < MaxPolls
    /\ \E fault \in BOOLEAN :
          LET resp == IF fault THEN "500"
                      ELSE IF Had(kind, d.id, remote) THEN "ok" ELSE "notfound"
              w0 == PollStep(DeleteRetryConf, wait, resp,
                             retryNetworkDeleteFunc(resp))
              w == [w0 EXCEPT !.lastErr = IF resp = "500" THEN resp ELSE @]
          IN /\ wait' = w
             /\ remote' = IF resp = "ok" THEN [remote EXCEPT !.f.deleting = TRUE]
                          ELSE remote
             /\ Called("NetworkDelete", IF Going(w) THEN "running" ELSE w.ret, fault)
             /\ pc' = IF Going(w) THEN pc ELSE "idle"
    /\ UNCHANGED <<kind, th, mu, sess, ops, d, cfg, site, loc, ip>>

\* One refresh of isWaitForIBMPINetworkDeleted: client.Get.
PIPollDeleted ==
    /\ pc = "d_wait"
    /\ wait.done = "running" /\ wait.polls < MaxPolls
    /\ \E fault, prog \in BOOLEAN :
          LET rem == IF prog THEN Progress(remote) ELSE remote
              get == IF fault THEN "err"
                     ELSE IF ~Had(kind, d.id, rem) THEN "notfound" ELSE "found"
              w == PollStep(DeletedConf, wait, get,
                            isIBMPINetworkRefreshDeleteFunc(get))
          IN /\ wait' = w
             /\ remote' = rem
             /\ Called("NetworkGet", IF Going(w) THEN "running" ELSE w.ret, fault)
             /\ pc' = IF Going(w) THEN pc ELSE "idle"
    /\ UNCHANGED <<kind, th, mu, sess, ops, d, cfg, site, loc, ip>>

(***************************************************************************)
(* What happens around the handlers: a record is imported under an         *)
(* identity the user typed, and the remote entity is removed out of band.  *)
(***************************************************************************)
Zero(k) ==
    CASE k = "glb" -> GLBZero
      [] k = "pn" -> PNZero
      [] k = "mtls" -> MtlsZero
      [] k = "fw" -> FWZero
      [] OTHER -> PIZero

\* schema.ImportStatePassthroughContext: the identity is taken as typed.
Import ==
    /\ pc = "idle" /\ d.id = << >>
    /\ \E id \in ImportIds(kind) : d' = [id |-> id, f |-> Zero(kind)]
    /\ last' = [NoLast EXCEPT !.op = "Import"]
    /\ loc' = NoLoc
    /\ wait' = NoWait
    /\ UNCHANGED <<kind, th, mu, sess, ops, cfg, remote, site, pc, ip>>

RemoteVanish ==
    /\ pc = "idle" /\ remote.exists
    /\ remote' = [NoRemote EXCEPT !.aux = remote.aux]
    /\ last' = [NoLast EXCEPT !.op = "Vanish"]
    /\ loc' = NoLoc
    /\ wait' = NoWait
    /\ UNCHANGED <<kind, th, mu, sess, ops, d, cfg, site, pc, ip>>

Sites == {"onprem", "noper", "per"}

\* The client session objects before any handler has set an instance CRN.
NoSession == [shared |-> FALSE, crn |-> << >>]

NoIP == [cidr |-> << >>, out |-> IPError, done |-> FALSE]

Init ==
    /\ kind \in Kinds
    /\ site \in IF kind = "pi" THEN Sites ELSE {"onprem"}
    /\ d = Fresh(Zero(kind))
    /\ cfg = Zero(kind)
    /\ remote = [NoRemote EXCEPT !.aux = (kind = "fw")]
    /\ last = NoLast
    /\ pc = "idle"
    /\ loc = NoLoc
    /\ wait = NoWait
    /\ ip = NoIP
    /\ ops = 0
    /\ th = << >>
    /\ mu = << >>
    /\ sess = NoSession

Next ==
    \/ GLBCreate \/ GLBRead \/ GLBUpdate \/ GLBDelete
    \/ PNCreate \/ PNRead \/ PNDelete
    \/ MtlsCreate \/ MtlsRead \/ MtlsUpdate \/ MtlsDelete
    \/ FWCreate \/ FWRead \/ FWUpdate \/ FWDelete
    \/ PICreate \/ PIRead \/ PIUpdate \/ PIDelete
    \/ PIWorkspaceGet \/ PIPollPER \/ PIPollCreate \/ PIPollAvailable
    \/ PIAfterWait \/ PITimeout \/ PITags \/ PIReadGet \/ PIReadSet
    \/ PIUpdateCall \/ PIPollUpdated \/ PIPollDelete \/ PIPollDeleted
    \/ Import \/ RemoteVanish

Spec == Init /\ [][Next]_vars

(***************************************************************************)
(* generateIPData on its own: applied once to each CIDR text of a bounded  *)
(* set (three addresses under every prefix length from MinPrefix up, a     *)
(* text that does not parse, the empty text).                              *)
(***************************************************************************)
MinPrefix == 2

\* 10.0.0.5, 10.255.255.255, 100.64.1.255
Addresses == {167772165, 184549375, 1681916415}

Cidrs == (Addresses \X (MinPrefix..AddrBits)) \cup {<<-1>>, << >>}

InitIP ==
    /\ kind = "pi"
    /\ site = "onprem"
    /\ d = Fresh(PIZero)
    /\ cfg = PIZero
    /\ remote = NoRemote
    /\ last = NoLast
    /\ pc = "idle"
    /\ loc = NoLoc
    /\ wait = NoWait
    /\ ops = 0
    /\ th = << >>
    /\ mu = << >>
    /\ sess = NoSession
    /\ \E c \in Cidrs : ip = [NoIP EXCEPT !.cidr = c]

Generate ==
    /\ ~ip.done
    /\ ip' = [ip EXCEPT !.out = generateIPData(ip.cidr), !.done = TRUE]
    /\ UNCHANGED <<kind, th, mu, sess, d, cfg, remote, last, site, pc, loc, wait, ops>>

NextIP == Generate

SpecIP == InitIP /\ [][NextIP]_vars

(***************************************************************************)
(* Concurrent permitted-network operations.  The plugin serves several     *)
(* records at once, one thread per operation; Create, Delete and Exists    *)
(* take the lock of conns.IbmMutexKV named after the record's parent       *)
(* (instance id and zone id) and release it by a deferred Unlock.  Every   *)
(* statement that can end the handler is one step; the vendor's answers    *)
(* are arbitrary.                                                          *)
(***************************************************************************)
\* The threads of the plugin; together they make MaxOps handler invocations.
MaxThreads == 2

Threads == 1..MaxThreads

\* The parents the records hang under, and the identities of the records
\* (two are short of segments).
PNParents == {<<"i1", "z1">>, <<"i1", "z2">>}

PNIds == {<<"i1">>, <<"i1", "z1">>} \cup {p \o <<NewID>> : p \in PNParents}

\* A thread that runs no handler; op, key and out tell of its latest one.
PNIdle ==
    [op |-> "none", pc |-> "idle", id |-> << >>, par |-> << >>, key |-> "",
     out |-> "none"]

\* mk := "private_dns_permitted_network_" + instanceID + zoneID
MutexKey(instanceID, zoneID) ==
    "private_dns_permitted_network_" \o instanceID \o zoneID

\* mutexkv: the holder of the lock named k (0: free, or not yet created), and
\* the registry after Lock and Unlock; a lock is created when first named.
Holder(m, k) == IF k \in DOMAIN m THEN m[k] ELSE 0

Lock(m, k, t) == [x \in DOMAIN m \cup {k} |-> IF x = k THEN t ELSE m[x]]

Unlock(m, k) == [x \in DOMAIN m \cup {k} |-> IF x = k THEN 0 ELSE m[x]]

\* An exit that unlocks on the success path only.
PNExitOnSuccess(m, k, out) == IF out = "ok" THEN Unlock(m, k) ELSE m

\* defer conns.IbmMutexKV.Unlock(mk): the registry once the handler has left
\* with the outcome out, a panic included.
PNExit(m, k, out) == Unlock(m, k)

\* The statements a handler runs with the lock held.
PNSection == {"new", "call", "read"}

\* A handler prologue that goes on without taking the lock.
PNBeginUnlocked(op, id, par, sessOk) ==
    [PNIdle EXCEPT
        !.op = op, !.id = id, !.par = par,
        !.pc = IF op = "Create" THEN "new" ELSE "call",
        !.key = IF op = "Create" THEN MutexKey(par[1], par[2])
                ELSE IF Len(id) >= 2 THEN MutexKey(id[1], id[2]) ELSE ""]

\* The handler op up to its Lock: the session, the split of the identity
\* `id` (Delete and Exists) or the parent `par` of the configuration
\* (Create), and the name of the lock.
PNBegin(op, id, par, sessOk) ==
    LET t0 == [PNIdle EXCEPT !.op = op, !.id = id, !.par = par] IN
    IF ~sessOk THEN [t0 EXCEPT !.out = "ClientInitializationError"]
    ELSE IF op = "Create"
    THEN [t0 EXCEPT !.pc = "lock", !.key = MutexKey(par[1], par[2])]
    ELSE IF op = "Delete" /\ Len(id) < 2 THEN [t0 EXCEPT !.out = "panic"]
    ELSE IF op = "Exists" /\ Len(id) < 3
    THEN [t0 EXCEPT !.out = "IdentityParseError"]
    ELSE [t0 EXCEPT !.pc = "lock", !.key = MutexKey(id[1], id[2])]

\* The thread t leaves its handler with the outcome out and the record's
\* identity id.
PNReturn(t, out, id) ==
    /\ th' = [th EXCEPT ![t].pc = "idle", ![t].out = out, ![t].id = id,
                         ![t].par = << >>]
    /\ mu' = PNExit(mu, th[t].key, out)

\* The thread t goes on to the statement `to`.
PNGo(t, to, id) ==
    /\ th' = [th EXCEPT ![t].pc = to, ![t].id = id]
    /\ mu' = mu

PNStart(t) ==
    /\ th[t].pc = "idle"
    /\ ops < MaxOps
    /\ ops' = ops + 1
    /\ \E sessOk \in BOOLEAN :
          \/ \E p \in PNParents :
                th' = [th EXCEPT ![t] =
                          PNBegin("Create", << >>, p, sessOk)]
          \/ \E op \in {"Delete", "Exists"}, id \in PNIds :
                th' = [th EXCEPT ![t] =
                          PNBegin(op, id, << >>, sessOk)]
    /\ UNCHANGED <<kind, mu, sess, d, cfg, remote, last, site, pc, loc, wait,
                   ip>>

\* conns.IbmMutexKV.Lock(mk) returns once the lock is free.
PNLock(t) ==
    /\ th[t].pc = "lock"
    /\ Holder(mu, th[t].key) = 0
    /\ mu' = Lock(mu, th[t].key, t)
    /\ th' = [th EXCEPT ![t].pc = IF th[t].op = "Create" THEN "new" ELSE "call"]
    /\ UNCHANGED <<kind, sess, d, cfg, remote, last, site, pc, loc, wait, ip,
                   ops>>

\* sess.NewPermittedNetworkVpc of Create
PNNewVpc(t) ==
    /\ th[t].pc = "new"
    /\ \E vpcOk \in BOOLEAN :
          IF vpcOk THEN PNGo(t, "call", th[t].id)
          ELSE PNReturn(t, "RequestError", th[t].id)
    /\ UNCHANGED <<kind, sess, d, cfg, remote, last, site, pc, loc, wait, ip,
                   ops>>

\* The vendor call of the handler: CreatePermittedNetwork and d.SetId,
\* DeletePermittedNetwork and d.SetId(""), or GetPermittedNetwork.
PNCall(t) ==
    /\ th[t].pc = "call"
    /\ \E st \in {200, 404, 500} :
          CASE th[t].op = "Create" ->
                 IF st = 200 THEN PNGo(t, "read", th[t].par \o <<NewID>>)
                 ELSE PNReturn(t, "APIError", th[t].id)
            [] th[t].op = "Delete" ->
                 IF Len(th[t].id) < 3 THEN PNReturn(t, "panic", th[t].id)
                 ELSE IF st = 200 THEN PNReturn(t, "ok", << >>)
                 ELSE PNReturn(t, "APIError", th[t].id)
            [] OTHER ->
                 IF st = 200 THEN PNReturn(t, "ok", th[t].id)
                 ELSE IF st = 404 THEN PNReturn(t, "gone", th[t].id)
                 ELSE PNReturn(t, "APIError", th[t].id)
    /\ UNCHANGED <<kind, sess, d, cfg, remote, last, site, pc, loc, wait, ip,
                   ops>>

\* The Read that Create ends with, the lock still held.
PNReadLocked(t) ==
    /\ th[t].pc = "read"
    /\ \E sessOk \in BOOLEAN, st \in {200, 404, 500} :
          PNReturn(t, IF ~sessOk THEN "ClientInitializationError"
                      ELSE IF st # 200 THEN "APIError" ELSE "ok", th[t].id)
    /\ UNCHANGED <<kind, sess, d, cfg, remote, last, site, pc, loc, wait, ip,
                   ops>>

\* A started handler runs on.
PNRun(t) == PNLock(t) \/ PNNewVpc(t) \/ PNCall(t) \/ PNReadLocked(t)

InitPN ==
    /\ kind = "pn"
    /\ site = "onprem"
    /\ d = Fresh(PNZero)
    /\ cfg = PNZero
    /\ remote = NoRemote
    /\ last = NoLast
    /\ pc = "idle"
    /\ loc = NoLoc
    /\ wait = NoWait
    /\ ip = NoIP
    /\ ops = 0
    /\ th = [t \in Threads |-> PNIdle]
    /\ mu = << >>
    /\ sess = NoSession

NextPN == \E t \in Threads : PNStart(t) \/ PNRun(t)

\* The scheduler lets every started handler run, and a vendor call returns.
SpecPN == InitPN /\ [][NextPN]_vars /\ \A t \in Threads : WF_vars(PNRun(t))

(***************************************************************************)
(* Concurrent mTLS operations.  Every handler fetches the client session   *)
(* (CisMtlsSession), writes the record's instance CRN into its Crn field   *)
(* and then calls the vendor, which serves the call for the CRN the        *)
(* session carries at that moment.  Whether CisMtlsSession hands every     *)
(* caller the one client of the plugin or a copy of it is decided outside  *)
(* these handlers: both are possible here.  The record of thread t belongs *)
(* to the CIS instance numbered t; 0 is an unset CRN.                      *)
(***************************************************************************)
\* The statements of a handler that touch the session, in order: "set" is
\* sess.Crn = core.StringPtr(crn), the others are the vendor calls.  Create
\* and Update end with Read, which fetches and sets the session again.
MtlsSteps(op, changed) ==
    CASE op = "Create" ->
           <<"set", "CreateAccessCertificate", "set", "GetAccessCertificate">>
      [] op = "Read" -> <<"set", "GetAccessCertificate">>
      [] op = "Update" ->
           IF changed
           THEN <<"set", "UpdateAccessCertificate", "set", "GetAccessCertificate">>
           ELSE <<"set", "set", "GetAccessCertificate">>
      [] OTHER -> <<"set", "DeleteAccessCertificate">>

\* A thread that runs no handler; at is the CRN its latest vendor call was
\* served for.
MtlsIdle(crn) ==
    [op |-> "none", todo |-> << >>, crn |-> crn, at |-> 0, out |-> "none"]

\* The session object thread t works on: the plugin's one client (0), or the
\* thread's own copy.
Slot(s, t) == IF s.shared THEN 0 ELSE t

\* The Crn field of the session object in slot x.
CrnIn(s, x) == IF x \in DOMAIN s.crn THEN s.crn[x] ELSE 0

SetCrn(s, x, crn) ==
    [s EXCEPT !.crn = [y \in DOMAIN s.crn \cup {x} |->
                           IF y = x THEN crn ELSE s.crn[y]]]

MtlsStart(t) ==
    /\ th[t].todo = << >>
    /\ ops < MaxOps
    /\ ops' = ops + 1
    /\ \E op \in {"Create", "Read", "Update", "Delete"},
          sessOk, changed \in BOOLEAN :
          th' = [th EXCEPT ![t] =
                    [MtlsIdle(th[t].crn) EXCEPT
                        !.op = op,
                        !.todo = IF sessOk THEN MtlsSteps(op, changed) ELSE << >>,
                        !.out = IF sessOk THEN "running"
                                ELSE "ClientInitializationError"]]
    /\ UNCHANGED <<kind, mu, sess, d, cfg, remote, last, site, pc, loc, wait,
                   ip>>

\* sess.Crn = core.StringPtr(crn)
MtlsSetCrn(t) ==
    /\ th[t].todo # << >> /\ Head(th[t].todo) = "set"
    /\ sess' = SetCrn(sess, Slot(sess, t), th[t].crn)
    /\ th' = [th EXCEPT ![t].todo = Tail(@)]
    /\ UNCHANGED <<kind, mu, d, cfg, remote, last, site, pc, loc, wait, ip,
                   ops>>

\* A vendor call of the handler: it is served for the CRN the session holds.
MtlsCall(t) ==
    /\ th[t].todo # << >> /\ Head(th[t].todo) # "set"
    /\ \E fault \in BOOLEAN :
          th' = [th EXCEPT
                   ![t].at = CrnIn(sess, Slot(sess, t)),
                   ![t].todo = IF fault THEN << >> ELSE Tail(@),
                   ![t].out = IF fault THEN "APIError"
                              ELSE IF Len(th[t].todo) = 1 THEN "ok" ELSE @]
    /\ UNCHANGED <<kind, mu, sess, d, cfg, remote, last, site, pc, loc, wait,
                   ip, ops>>

InitMtls ==
    /\ kind = "mtls"
    /\ site = "onprem"
    /\ d = Fresh(MtlsZero)
    /\ cfg = MtlsZero
    /\ remote = NoRemote
    /\ last = NoLast
    /\ pc = "idle"
    /\ loc = NoLoc
    /\ wait = NoWait
    /\ ip = NoIP
    /\ ops = 0
    /\ th = [t \in Threads |-> MtlsIdle(t)]
    /\ mu = << >>
    /\ \E shared \in BOOLEAN : sess = [NoSession EXCEPT !.shared = shared]

NextMtls == \E t \in Threads : MtlsStart(t) \/ MtlsSetCrn(t) \/ MtlsCall(t)

SpecMtls == InitMtls /\ [][NextMtls]_vars

(***************************************************************************)
(* The refresh function of the update wait taken alone: Update has sent    *)
(* the body loc.body and every client.Get of the wait returns the network  *)
(* loc.net.                                                                *)
(***************************************************************************)
\* The update bodies tried; 10.0.0.9 is the gateway, 7, 8 and 9 are DNS
\* servers.
UpdBodies ==
    [advertise : {"", "enable"}, arp : {""},
     dns : {<< >>, <<8, 9>>, <<9, 8>>, <<7, 9>>},
     gateway : {-1, 167772169},
     ranges : {<< >>, RangesTried, <<RangesTried[2], RangesTried[1]>>},
     name : {Nil, "n2"}]

\* The networks the vendor may answer with.
UpdNets ==
    [advertise : {"enable", "disable"}, arp : {"disable"},
     dns : {<<8, 9>>, <<9, 7>>, <<8>>},
     gateway : {167772169, 167772170},
     ranges : {<< >>, RangesTried},
     name : {"n1", "n2"}]

InitUpd ==
    /\ kind = "pi"
    /\ site = "onprem"
    /\ d = Fresh(PIZero)
    /\ cfg = PIZero
    /\ remote = NoRemote
    /\ last = NoLast
    /\ pc = "u_wait"
    /\ \E body \in UpdBodies, net \in UpdNets :
          loc = [NoLoc EXCEPT !.body = body, !.net = net]
    /\ wait = StartWait("updated")
    /\ ops = 0
    /\ th = << >>
    /\ mu = << >>
    /\ sess = NoSession
    /\ ip = NoIP

\* One iteration of isWaitForIBMPINetworkUpdated over the network loc.net.
UpdRefresh ==
    /\ pc = "u_wait"
    /\ wait.done = "running" /\ wait.polls < MaxPolls
    /\ \E get \in {"err", "net"} :
          wait' = PollStep(UpdatedConf, wait, get,
                           isIBMPINetworkRefreshUpdateFunc(get, loc.net, loc.body))
    /\ UNCHANGED <<kind, th, mu, sess, d, cfg, remote, last, site, pc, loc, ops, ip>>

\* The timeout of the update wait elapses.
UpdTimeout ==
    /\ pc = "u_wait"
    /\ wait.done = "running" /\ wait.polls > 0
    /\ wait' = PollTimeout(UpdatedConf, wait)
    /\ UNCHANGED <<kind, th, mu, sess, d, cfg, remote, last, site, pc, loc, ops, ip>>

NextUpd == UpdRefresh \/ UpdTimeout

SpecUpd == InitUpd /\ [][NextUpd]_vars

(***************************************************************************)
(* The name of the parent lock taken alone: two handlers compute the lock  *)
(* name of their parents.                                                  *)
(***************************************************************************)
\* The instance ids and zone ids tried: texts without "/", as the segments
\* of an identity are.
KeyInstances == {"i", "i1", "i2"}

KeyZones == {"z1", "1z1", "z2", "2z1"}

InitKey ==
    /\ kind = "pn"
    /\ site = "onprem"
    /\ d = Fresh(PNZero)
    /\ cfg = PNZero
    /\ remote = NoRemote
    /\ last = NoLast
    /\ pc = "idle"
    /\ loc = NoLoc
    /\ wait = NoWait
    /\ ip = NoIP
    /\ ops = 0
    /\ mu = << >>
    /\ sess = NoSession
    /\ \E p, q \in KeyInstances \X KeyZones :
          th = <<[PNIdle EXCEPT !.par = p], [PNIdle EXCEPT !.par = q]>>

\* mk := "private_dns_permitted_network_" + instanceID + zoneID in the
\* handler of thread t.
MakeKey(t) ==
    /\ th[t].key = ""
    /\ th' = [th EXCEPT ![t].key = MutexKey(th[t].par[1], th[t].par[2])]
    /\ UNCHANGED <<kind, mu, sess, d, cfg, remote, last, site, pc, loc, wait,
                   ip, ops>>

NextKey == \E t \in {1, 2} : MakeKey(t)

SpecKey == InitKey /\ [][NextKey]_vars

(***************************************************************************)
(* The data source of the crypto-unit instances: dataSourceIBMHPCSRead.    *)
(***************************************************************************)
\* The longest chain of pages tried.
MaxPages == 3

\* A text of the listing is the tuple of its characters' stand-ins: the empty
\* text is << >>, the continuation token that names page i is <<i>>.
EmptyText == << >>

TokenOf(i) == <<i>>

\* A map that may be nil.
NilMap == [nil |-> TRUE, m |-> << >>]

Map(m) == [nil |-> FALSE, m |-> m]

\* rc.ResourceInstance: location is what flex.GetLocationV2 reads from it,
\* parameters the instance's Parameters.
HpcsInstance(id, location, parameters) ==
    [id |-> id, location |-> location, region_id |-> location,
     parameters |-> parameters]

HpcsInstanceA == HpcsInstance("a", "us-south", NilMap)

HpcsInstanceB ==
    HpcsInstance("b", "us-south",
                 Map([allowed_network |-> "private-only", units |-> 2]))

HpcsInstanceC == HpcsInstance("c", "eu-de", Map([failover_units |-> 1]))

\* flex.GetLocationV2(instance)
GetLocationV2(instance) == instance.location

\* The Resources of one page of the list.
PageResources ==
    {<< >>, <<HpcsInstanceA>>, <<HpcsInstanceB, HpcsInstanceC>>}

\* A pointer to a URL text: whether url.Parse accepts the text, and the
\* parameters of its query.
URL(parses, query) == [nil |-> FALSE, parses |-> parses, query |-> query]

\* The nil pointer in the place of a URL text.
NilURL == [nil |-> TRUE, parses |-> FALSE, query |-> << >>]

\* The NextURL of the page before page i: a URL that carries the token of
\* page i in the query parameter "next_url", one that carries it in the query
\* parameter "start", or a text url.Parse rejects.
NextURLs(i) ==
    {URL(TRUE, [next_url |-> TokenOf(i)]),
     URL(TRUE, [start |-> TokenOf(i)]),
     URL(FALSE, << >>)}

\* The remote list: chains of 1..MaxPages pages, every page but the last
\* with a NextURL that names its successor, the last with a nil NextURL.
HpcsChains ==
    UNION {
        {[i \in 1..n |->
             [resources |-> rs[i],
              next_url |-> IF i = n THEN NilURL ELSE nx[i]]] :
            rs \in [1..n -> PageResources],
            nx \in {f \in [1..n -> UNION {NextURLs(j) : j \in 2..(n + 1)}] :
                       \A i \in 1..n : f[i] \in NextURLs(i + 1)}} :
        n \in 1..MaxPages}

\* q.Get(name): the value of the query parameter, the empty text without it.
QueryGet(q, name) == IF name \in DOMAIN q THEN q[name] ELSE EmptyText

\* getInstancesNext
getInstancesNext(next) ==
    IF next.nil THEN [next_url |-> EmptyText, err |-> FALSE]
    ELSE IF ~next.parses THEN [next_url |-> EmptyText, err |-> TRUE]
    ELSE [next_url |-> QueryGet(next.query, "next_url"), err |-> FALSE]

\* rsConClient.ListResourceInstances: the first page without a Start (a
\* Start is never the empty text, which stands here for none), the page the
\* token names with one.
ListResourceInstances(chain, start) ==
    IF start = EmptyText THEN chain[1] ELSE chain[start[1]]

\* The computed fields of the data source, none set.
HpcsZero ==
    [status |-> Nil, resource_group_id |-> Nil, location |-> Nil,
     service |-> Nil, guid |-> Nil, extensions |-> Nil,
     service_endpoints |-> Nil, units |-> Nil, failover_units |-> Nil,
     plan |-> Nil, crn |-> Nil, hsm_info |-> Nil]

\* The configurations tried: the name, and the optional location.
HpcsConfigs == {[name |-> "n1", location |-> l] : l \in {Nil, "us-south"}}

\* The locals of the listing loop; listed says that the loop has ended by
\* its break, calls counts the list calls made.
HpcsLoc ==
    [start |-> EmptyText, next_url |-> EmptyText, instances |-> << >>, calls |-> 0,
     listed |-> FALSE]

\* The instances the location filter keeps; without a location, all.
FilterByLocation(instances, location) ==
    IF location = Nil THEN instances
    ELSE SelectSeq(instances, LAMBDA i : GetLocationV2(i) = location)

\* The fields set from the instance's Parameters.
HpcsParameters(f, instance) ==
    IF instance.parameters.nil THEN f
    ELSE LET p == instance.parameters.m
             f1 == [f EXCEPT !.service_endpoints =
                        IF "allowed_network" \in DOMAIN p
                           /\ p.allowed_network = "private-only"
                        THEN "private-only" ELSE "public-and-private"]
             f2 == IF "units" \in DOMAIN p
                   THEN [f1 EXCEPT !.units = p.units] ELSE f1
         IN IF "failover_units" \in DOMAIN p
            THEN [f2 EXCEPT !.failover_units = p.failover_units] ELSE f2

\* dataSourceIBMHPCSRead after the loop, accepting the first instance when
\* several remain.
HpcsSelectFirst(w, instances, location, svcOk, planOk, hsmOk) ==
    LET filteredInstances == FilterByLocation(instances, location) IN
    IF Len(filteredInstances) = 0 THEN [d |-> w, out |-> "NoInstanceFound"]
    ELSE LET instance == filteredInstances[1]
             f1 == [w.f EXCEPT !.status = "active",
                               !.resource_group_id = "rg",
                               !.location = instance.region_id]
         IN [d |-> [id |-> <<instance.id>>, f |-> f1],
             out |-> IF svcOk /\ planOk /\ hsmOk THEN "ok" ELSE "APIError"]

\* dataSourceIBMHPCSRead after the loop: the filter, the two checks of the
\* number of instances left, and the fields set from the one instance.
HpcsSelect(w, instances, location, svcOk, planOk, hsmOk) ==
    LET filteredInstances == FilterByLocation(instances, location) IN
    IF Len(filteredInstances) = 0 THEN [d |-> w, out |-> "NoInstanceFound"]
    ELSE IF Len(filteredInstances) > 1 THEN [d |-> w, out |-> "MoreThanOneFound"]
    ELSE LET instance == filteredInstances[1]
             f1 == [w.f EXCEPT !.status = "active",
                               !.resource_group_id = "rg",
                               !.location = instance.region_id]
             f2 == [f1 EXCEPT !.service = "hs-crypto", !.guid = instance.id,
                              !.extensions = << >>]
             f3 == HpcsParameters(f2, instance)
             f4 == [f3 EXCEPT !.plan = "standard", !.crn = instance.id]
         IN
         IF ~svcOk THEN [d |-> [id |-> <<instance.id>>, f |-> f1], out |-> "APIError"]
         ELSE IF ~planOk
              THEN [d |-> [id |-> <<instance.id>>, f |-> f3], out |-> "APIError"]
         ELSE IF ~hsmOk
              THEN [d |-> [id |-> <<instance.id>>, f |-> f4], out |-> "APIError"]
         ELSE [d |-> [id |-> <<instance.id>>, f |-> [f4 EXCEPT !.hsm_info = << >>]],
               out |-> "ok"]

InitHpcs ==
    /\ kind = "hpcs"
    /\ site = "onprem"
    /\ cfg \in HpcsConfigs
    /\ d = Fresh(HpcsZero)
    /\ remote \in {[NoRemote EXCEPT !.exists = TRUE, !.f = c] : c \in HpcsChains}
    /\ last = NoLast
    /\ pc = "idle"
    /\ loc = HpcsLoc
    /\ wait = NoWait
    /\ ip = NoIP
    /\ ops = 0
    /\ th = << >>
    /\ mu = << >>
    /\ sess = NoSession

\* dataSourceIBMHPCSRead up to the loop: the two clients and the service
\* offering; a data source is read into a record without identity.
HpcsRead ==
    /\ pc = "idle"
    /\ \E sessOk, catOk, findOk \in BOOLEAN :
          LET out == IF ~sessOk \/ ~catOk THEN "ClientInitializationError"
                     ELSE IF ~findOk THEN "APIError"
                     ELSE "running"
          IN /\ Begin("Read", out, FALSE)
             /\ pc' = IF out = "running" THEN "list" ELSE "idle"
    /\ d' = Fresh(HpcsZero)
    /\ loc' = HpcsLoc
    /\ UNCHANGED <<kind, cfg, remote, site, wait, ip, th, mu, sess>>

\* One turn of the loop: a list call, the parsing of the page's NextURL, the
\* appending of its Resources, and the break on an empty next_url.
HpcsList ==
    /\ pc = "list"
    /\ \E listOk \in BOOLEAN :
          LET start == IF loc.next_url # EmptyText THEN loc.next_url ELSE loc.start
              listInstanceResponse == ListResourceInstances(remote.f, start)
              nxt == getInstancesNext(listInstanceResponse.next_url)
              called == [loc EXCEPT !.start = start, !.calls = @ + 1]
          IN IF ~listOk
             THEN /\ Called("ListResourceInstances", "APIError", TRUE)
                  /\ loc' = called
                  /\ pc' = "idle"
             ELSE IF nxt.err
             THEN /\ Called("ListResourceInstances", "ParseError", FALSE)
                  /\ loc' = called
                  /\ pc' = "idle"
             ELSE /\ Called("ListResourceInstances", "running", FALSE)
                  /\ loc' = [called EXCEPT
                               !.next_url = nxt.next_url,
                               !.instances = @ \o listInstanceResponse.resources,
                               !.listed = nxt.next_url = EmptyText]
                  /\ pc' = IF nxt.next_url = EmptyText THEN "select" ELSE "list"
    /\ UNCHANGED <<kind, d, cfg, remote, site, wait, ip, ops, th, mu, sess>>

\* The rest of dataSourceIBMHPCSRead.
HpcsResult ==
    /\ pc = "select"
    /\ \E svcOk, planOk, hsmOk \in BOOLEAN :
          LET r == HpcsSelect(d, loc.instances, cfg.location, svcOk, planOk, hsmOk)
          IN /\ d' = r.d
             /\ last' = [last EXCEPT !.out = r.out, !.failed = r.out = "APIError",
                                     !.faulty = @ \/ r.out = "APIError"]
    /\ pc' = "idle"
    /\ UNCHANGED <<kind, cfg, remote, site, loc, wait, ip, ops, th, mu, sess>>

NextHpcs == HpcsRead \/ HpcsList \/ HpcsResult

SpecHpcs == InitHpcs /\ [][NextHpcs]_vars

(***************************************************************************)
(* Properties                                                              *)
(***************************************************************************)
\* The identity has all the segments its resource type needs.
WellFormed(k, id) == Len(Split(id)) >= (IF k \in {"glb", "pi"} THEN 2 ELSE 3)

\* The handler op has returned, and it found the identity well formed (Create
\* has none yet), the session working and the vendor answering every call
\* (possibly "not found").
Returned(op) ==
    /\ pc = "idle"
    /\ last.op = op
    /\ ~last.faulty
    /\ op = "Create" \/ WellFormed(kind, last.id0)

\* C1: Delete is idempotent for every resource type: a Delete of a record
\* whose remote entity is already gone returns success.
C1_DeleteIdempotent ==
    (Returned("Delete") /\ ~last.had) => last.out = "ok"

\* C2: for every resource type, a Read that finds the remote entity gone
\* (the vendor answers 404) clears the record's identity and returns success.
C2_ReadNotFoundClears ==
    (Returned("Read") /\ ~last.had) => (last.out = "ok" /\ d.id = << >>)

\* The vendor calls that only fetch.
ReadCalls ==
    {"GetMonitor", "GetPermittedNetwork", "GetAccessCertificate",
     "GetFirewallRule", "NetworkGet", "TagsGet", "WorkspaceGet"}

\* C3 as stated: an Update that finds no field of the record changed issues
\* zero vendor calls.
C3_NoChangeNoCalls ==
    (last.op = "Update" /\ ~last.changed) => last.calls = << >>

\* C3: an Update that finds no field of the record changed issues no
\* modifying vendor call: every call it makes is a fetch of the Read it ends
\* with.
C3_NoChangeOnlyFetches ==
    (last.op = "Update" /\ ~last.changed) =>
        \A i \in 1..Len(last.calls) : last.calls[i] \in ReadCalls

\* An Update without a change has returned success after fetching.
C3_Witness ==
    /\ Returned("Update") /\ ~last.changed
    /\ last.out = "ok" /\ last.calls # << >>

\* The schema fields that are not Computed.
NonComputed(k) ==
    CASE k = "glb" -> {"instance_id", "name", "description"}
      [] k = "pn" -> {"instance_id", "zone_id", "vpc_crn", "type"}
      [] k = "mtls" -> {"cis_id", "domain_id", "certificate", "name",
                        "associated_hostnames"}
      [] k = "fw" -> {"cis_id", "domain_id", "filter_id", "action", "paused",
                      "description"}
      [] OTHER -> {"cloud_instance_id", "name", "type", "advertise", "arp"}

\* C4 as stated: after a successful Create (which ends with Read) every
\* non-computed field of the record equals the value the configuration
\* supplied, the remote side storing exactly what it was sent.
C4_CreateRoundTrip ==
    (Returned("Create") /\ last.out = "ok") =>
        \A k \in NonComputed(kind) : d.f[k] = cfg[k]

\* C4: after a successful Create every non-computed field of the record
\* equals the value the configuration supplied, except that a CIS domain id
\* is recorded as its zone id alone: it names the zone that was supplied.
C4_CreateRoundTripZone ==
    (Returned("Create") /\ last.out = "ok") =>
        \A k \in NonComputed(kind) :
            IF k = "domain_id" /\ kind = "fw"
            THEN d.f[k] = <<ConvertTftoCisTwoVar(cfg[k]).a>>
            ELSE d.f[k] = cfg[k]

\* A firewall rule was created from a composite domain id.
C4_Witness ==
    /\ Returned("Create") /\ last.out = "ok"
    /\ kind = "fw" /\ Len(cfg.domain_id) = 2

\* C5: a Read, Update or Delete of a record whose identity has fewer
\* segments than its resource type needs returns an identity-parse error
\* and makes no vendor call (it neither crashes nor goes on with empty
\* segments).
C5_ShortIdentityRejected ==
    (/\ pc = "idle"
     /\ last.op \in {"Read", "Update", "Delete"}
     /\ ~last.faulty
     /\ ~WellFormed(kind, last.id0))
    => (last.out = "IdentityParseError" /\ last.calls = << >>)

\* C6: the Create of a Power network of type vlan without a CIDR returns a
\* validation error, has made no vendor call and leaves the identity unset.
C6_VlanNeedsCidr ==
    (/\ kind = "pi"
     /\ last.op = "Create"
     /\ ~last.faulty
     /\ cfg.type = "vlan" /\ cfg.cidr = << >>)
    => (/\ pc = "idle"
        /\ last.out = "ValidationError"
        /\ last.calls = << >>
        /\ d.id = << >>)

\* Such a Create has run, with a working session.
C6_Witness ==
    /\ kind = "pi" /\ last.op = "Create" /\ ~last.faulty
    /\ cfg.type = "vlan" /\ cfg.cidr = << >>
    /\ pc = "idle"

\* C7: whenever generateIPData succeeds for a block with network address N
\* and last address B it returns gateway N+1, first usable N+4 and last
\* usable B-1, so that N < gateway < first <= last < B, under every prefix
\* length it accepts.
C7_AddressesOfBlock ==
    (ip.done /\ ~ip.out.err) =>
        /\ Len(ip.cidr) = 2
        /\ LET size == 2 ^ (AddrBits - ip.cidr[2])
               N == ip.cidr[1] - (ip.cidr[1] % size)
               B == N + size - 1
           IN /\ ip.out.gway = N + 1
              /\ ip.out.firstip = N + 4
              /\ ip.out.lastip = B - 1
              /\ N < ip.out.gway /\ ip.out.gway < ip.out.firstip
              /\ ip.out.firstip <= ip.out.lastip /\ ip.out.lastip < B

\* generateIPData succeeded for a /16, a prefix the size table does not list.
C7_Witness == ip.done /\ ~ip.out.err /\ ip.cidr[2] = 16

\* C8: when the status queries of the network-available wait answer
\* pending, pending, target (no VLAN id, none, then one), the wait has
\* invoked its refresh function exactly three times and returned the third
\* snapshot without error.
C8_ThreePolls ==
    (wait.name = "available" /\ wait.hist = <<"build", "build", "available">>)
    => (/\ wait.polls = 3
        /\ wait.done = "ok"
        /\ wait.snap = 3
        /\ wait.ret = "ok")

\* The available wait got these three answers during a Create.
C8_Witness ==
    /\ wait.name = "available" /\ wait.hist = <<"build", "build", "available">>
    /\ last.op = "Create"

\* C9 as stated: every wait of the Power network that is still pending when
\* its timeout elapses returns a Timeout error to its caller.
C9_TimeoutReturned == wait.done = "Timeout" => wait.ret = "Timeout"

\* C9: a wait of the Power network that is still pending when its timeout
\* elapses never reports success and its handler returns: the available,
\* updated, deleted and PER waits return the Timeout error, the create and
\* delete retry wrappers return an error made of the last vendor error.
C9_TimeoutFails ==
    wait.done = "Timeout" =>
        /\ pc = "idle"
        /\ last.out = wait.ret
        /\ wait.ret # "ok"
        /\ IF wait.name \in {"create", "delete"}
           THEN wait.ret = "LastErr" /\ wait.lastErr # ""
           ELSE wait.ret = "Timeout"

\* The create retry wrapper timed out after a failed attempt.
C9_Witness ==
    /\ wait.done = "Timeout" /\ wait.name = "create" /\ wait.polls = 1

\* C10: in the available, updated and PER waits a failing refresh (the Get
\* fails, or the router state is "error") ends the wait with that error at
\* once: it is the last invocation of the refresh function.
C10_RefreshErrorStops ==
    wait.name \in {"available", "updated", "per"} =>
        \A i \in 1..Len(wait.hist) :
            wait.hist[i] \in {"err", "error"} =>
                /\ i = Len(wait.hist)
                /\ wait.done = "RefreshError"
                /\ wait.ret = "RefreshError"
                /\ pc = "idle"
                /\ last.out = "RefreshError"

\* The PER wait met the router state "error" at its second refresh.
C10_Witness ==
    /\ wait.name = "per" /\ Len(wait.hist) = 2 /\ wait.hist[2] = "error"

\* C11: in the deletion wait of the Power network a not-found answer to the
\* status query is the target: it ends the wait with success; and as long as
\* the query finds the network the wait is pending (running, or timed out).
C11_NotFoundIsDeleted ==
    wait.name = "deleted" =>
        \A i \in 1..Len(wait.hist) :
            /\ wait.hist[i] = "notfound" =>
                  /\ i = Len(wait.hist)
                  /\ wait.done = "ok" /\ wait.ret = "ok" /\ wait.snap = i
            /\ (wait.hist[i] = "found" /\ i = Len(wait.hist)) =>
                  wait.done \in {"running", "Timeout"}

\* The deletion wait found the network once, then no more.
C11_Witness ==
    /\ wait.name = "deleted" /\ wait.hist = <<"found", "notfound">>
    /\ last.op = "Delete" /\ last.out = "ok"

\* C12: the locked sections of Create, Delete and Exists of permitted
\* networks under the same parent exclude one another: no two threads are
\* inside them together.
C12_MutualExclusion ==
    \A t1, t2 \in DOMAIN th :
        (t1 # t2 /\ th[t1].pc \in PNSection /\ th[t2].pc \in PNSection)
            => th[t1].key # th[t2].key

\* A Create is at its vendor call while a Delete under the same parent waits
\* for the lock.
C12_Witness ==
    \E t1, t2 \in DOMAIN th :
        /\ th[t1].op = "Create" /\ th[t1].pc = "call"
        /\ th[t2].op = "Delete" /\ th[t2].pc = "lock"
        /\ th[t1].key = th[t2].key

\* C13: a permitted-network handler that took the parent's lock releases it
\* however it leaves (request construction failed, the vendor call failed,
\* the delegated Read failed, or all went well): a lock is held only by a
\* thread inside the locked section of that lock, and a handler waiting for
\* a lock comes to hold it.
C13_LockReleased ==
    /\ [](\A k \in DOMAIN mu :
            mu[k] # 0 => (th[mu[k]].pc \in PNSection /\ th[mu[k]].key = k))
    /\ \A t \in Threads : (th[t].pc = "lock") ~> (th[t].pc \in PNSection)

\* A handler left its locked section with an error, and another thread then
\* took the same lock.
C13_Witness ==
    \E t1, t2 \in DOMAIN th :
        /\ th[t1].pc = "idle"
        /\ th[t1].out \in {"RequestError", "APIError", "panic"}
        /\ th[t1].key # "" /\ th[t1].key = th[t2].key
        /\ th[t2].pc \in PNSection
        /\ Holder(mu, th[t2].key) = t2

C15_ValidationBeforeCalls ==
    [][(/\ kind = "pi" /\ pc = "idle" /\ ops' = ops + 1
        /\ last'.out \notin {"ClientInitializationError", "IdentityParseError"}
        /\ \/ /\ last'.op = "Create"
              /\ cfg'.type = "pub-vlan" /\ cfg'.cidr # << >>
           \/ /\ last'.op = "Update"
              /\ LET new == Plan("pi", d.f, cfg') IN
                 /\ new.type # "vlan"
                 /\ new.gateway # d.f.gateway \/ new.ranges # d.f.ranges)
       => (/\ pc' = "idle"
           /\ last'.out = "ValidationError"
           /\ last'.calls = << >>
           /\ remote' = remote)]_vars

\* An Update of an existing network was refused for changing the gateway of
\* a pub-vlan network.
C15_Witness ==
    /\ kind = "pi" /\ last.op = "Update" /\ last.out = "ValidationError"
    /\ cfg.type = "pub-vlan" /\ remote.exists /\ last.had

\* C16: a handler that has returned after one of its session constructions
\* or vendor calls failed for a reason other than "not found" (a failed tag
\* update aside, and a failed call whose retry succeeded aside) has returned
\* an error.
C16_FailureIsReported == (pc = "idle" /\ last.failed) => last.out # "ok"

\* One step taken where the tag update is due leaves the handler running.
TagsStepGoesOn ==
    pc \in {"c_tags", "u_tags"} =>
        (pc' = "r_get" /\ last'.out = "running" /\ d' = d /\ loc' = loc)

\* C17: the tag update that ends Create and Update of a Power network never
\* ends the handler and never changes its result or its record, whether the
\* update failed or not; after a failed tag update the handler goes on to
\* the delegated Read, whose first vendor call is the next call made.
C17_TagFailureLogged ==
    /\ [][TagsStepGoesOn]_vars
    /\ [](last.tagFailed =>
            \/ pc = "r_get" /\ last.out = "running"
            \/ \E i \in 1..(Len(last.calls) - 1) :
                  last.calls[i] = "TagsUpdate" /\ last.calls[i + 1] = "NetworkGet")

C17_Witness ==
    /\ kind = "pi" /\ pc = "idle" /\ last.op = "Update" /\ last.tagFailed
    /\ last.out = "ok" /\ d.f.tags # remote.f.tags

\* Two lists hold the same items, whatever their order.
SameItems(a, b) ==
    /\ Len(a) = Len(b)
    /\ \E q \in Permutations(1..Len(a)) : \A i \in 1..Len(a) : a[i] = b[q[i]]

\* The network agrees with the update body on every field the body requests.
Equivalent(network, updateBody) ==
    /\ updateBody.advertise # "" => updateBody.advertise = network.advertise
    /\ updateBody.arp # "" => updateBody.arp = network.arp
    /\ Len(updateBody.dns) > 0 => SameItems(updateBody.dns, network.dns)
    /\ updateBody.gateway # -1 => updateBody.gateway = network.gateway
    /\ Len(updateBody.ranges) > 0 => SameItems(updateBody.ranges, network.ranges)
    /\ updateBody.name # Nil => updateBody.name = network.name

\* C18: the update wait ends with its target state only when the network
\* client.Get returned agrees with the update body on every requested field
\* (advertise, ARP broadcast, DNS servers, gateway, address ranges, name), the
\* lists compared without regard to order.
C18_TargetMeansEquivalent ==
    (wait.name = "updated" /\ wait.done = "ok") => Equivalent(loc.net, loc.body)

\* The fields in which the planned values differ from the record's.
ChangedFields(old, new) == {k \in DOMAIN old : old[k] # new[k]}

\* The fields an update body of the Power network carries.
PIBodyFields(b) ==
    {k \in {"advertise", "arp"} : b[k] # ""}
        \cup {k \in {"dns", "ranges"} : Len(b[k]) > 0}
        \cup {k \in {"gateway"} : b[k] # -1}
        \cup {k \in {"name"} : b[k] # Nil}

\* A step in which an Update handler is invoked.
UpdateInvoked == pc = "idle" /\ ops' = ops + 1 /\ last'.op = "Update"

\* An Update whose request carries only fields whose value changed.
OnlyChangedSent ==
    UpdateInvoked =>
        LET ch == ChangedFields(d.f, Plan(kind, d.f, cfg')) IN
        /\ last'.sent \subseteq ch
        /\ pc' = "u_call" => PIBodyFields(loc'.body) \subseteq ch

\* The statement of C19 as the specification words it, for every resource type.
C19_OnlyChangedSent == [][OnlyChangedSent]_vars

\* An Update of a Power network sends the changed fields only; an Update of
\* another resource type sends fields that the planned values set (for a GLB
\* monitor also name and description), changed or not.
SetFieldsSent ==
    UpdateInvoked =>
        LET new == Plan(kind, d.f, cfg')
            ch == ChangedFields(d.f, new)
            set == {k \in DOMAIN new : new[k] # Zero(kind)[k]}
        IN /\ pc' = "u_call" =>
                (PIBodyFields(loc'.body) # {} /\ PIBodyFields(loc'.body) \subseteq ch)
           /\ last'.sent # {} => ch # {}
           /\ last'.sent \subseteq
                 (set \cup IF kind = "glb" THEN {"name", "description"} ELSE {})

\* C19: when Update calls the vendor update API, the request body of a Power
\* network carries only the fields whose configured value changed; the
\* request of a GLB monitor, an mTLS certificate or a firewall rule carries
\* the fields the configuration sets, whether they changed or not.
C19_SentFields == [][SetFieldsSent]_vars

\* An Update of a Power network has sent a body that carries the changed
\* DNS servers and leaves the unchanged advertise flag out.
C19_Witness ==
    /\ kind = "pi" /\ last.op = "Update" /\ pc = "u_wait"
    /\ "dns" \in PIBodyFields(loc.body) /\ "advertise" \notin PIBodyFields(loc.body)

\* C20: for every resource type, a Delete that has returned success has
\* cleared the identity of the record, also when the vendor answered the
\* delete call with "not found".
C20_DeleteClearsIdentity ==
    (pc = "idle" /\ last.op = "Delete" /\ last.out = "ok") => d.id = << >>

\* C21: the refresh of a GLB monitor or of a permitted network whose Get
\* call is answered with 404 finds the record absent: Exists returns
\* (false, no error), so the refresh drops the record without an error and
\* without a further call.
C21_ExistsNotFoundIsAbsence ==
    (kind \in {"glb", "pn"} /\ Returned("Read") /\ ~last.had) =>
        (last.out = "ok" /\ d.id = << >> /\ Len(last.calls) = 1)

\* The i-th answer of client.Create was the last call of the creation wait.
LastCreateCall(i) == wait.name = "create" /\ i = Len(wait.hist)

\* The statement of C22 as the specification words it: a Create call that
\* failed otherwise than with 400 or 422 is always followed by another call
\* (unless the timeout of the wait elapses first).
C22_OtherFailureRetried ==
    wait.name = "create" =>
        \A i \in 1..Len(wait.hist) :
            (wait.hist[i] = "500" /\ LastCreateCall(i)) =>
                wait.done \in {"running", "Timeout"}

\* C22: in the creation wait of a Power network a Create call answered with
\* 400 or 422 is the last call, and the wait fails with the message of that
\* error; a Create call that failed otherwise is classified as pending and
\* followed by another call as long as fewer than Retries + 1 calls in a row
\* have failed and the timeout has not elapsed; a Create call that succeeded
\* is the last call.
C22_CreateRetryClasses ==
    wait.name = "create" =>
        \A i \in 1..Len(wait.hist) :
            /\ wait.hist[i] \in {"400", "422"} =>
                  /\ LastCreateCall(i)
                  /\ wait.done = "RefreshError" /\ wait.ret = "LastErr"
                  /\ wait.lastErr = wait.hist[i]
                  /\ pc = "idle" /\ last.out = "LastErr"
            /\ wait.hist[i] = "ok" => (LastCreateCall(i) /\ wait.done = "ok")
            /\ (wait.hist[i] = "500" /\ LastCreateCall(i)) =>
                  /\ wait.done # "RefreshError"
                  /\ i <= Retries => wait.done \in {"running", "Timeout"}

\* The creation wait retried a failed Create call and was then answered 422.
C22_Witness ==
    /\ wait.name = "create" /\ wait.hist = <<"500", "422">>
    /\ last.op = "Create" /\ pc = "idle"

\* Every call the retry wrapper has made failed with a retryable error.
AllRetryable ==
    /\ wait.name \in {"create", "delete"}
    /\ Len(wait.hist) > 0
    /\ \A i \in 1..Len(wait.hist) : wait.hist[i] = "500"

\* C23: createNetworkWithRetry and deleteNetworkWithRetry whose every call
\* fails with a retryable error make at most Retries + 1 calls; after the
\* Retries + 1-th the wrapper returns, before any timeout, an error made of
\* the message of the last failed call, and the handler returns it.
C23_BoundedAttempts ==
    AllRetryable =>
        /\ Len(wait.hist) <= Retries + 1
        /\ wait.polls = Len(wait.hist)
        /\ Len(wait.hist) = Retries + 1 =>
              /\ wait.done = "NotFoundError"
              /\ wait.ret = "LastErr" /\ wait.lastErr = "500"
              /\ pc = "idle" /\ last.out = "LastErr"
        /\ Len(wait.hist) <= Retries => wait.done \in {"running", "Timeout"}

\* The delete wrapper gave up after Retries + 1 failed calls, fewer than the
\* timeout allows.
C23_Witness ==
    /\ AllRetryable /\ wait.name = "delete" /\ Len(wait.hist) = Retries + 1
    /\ Retries + 1 < MaxPolls /\ last.op = "Delete" /\ pc = "idle"

\* The Create handler made a vendor call after client.Create, which it does
\* only once createNetworkWithRetry has returned the created network.
Created ==
    /\ kind = "pi" /\ last.op = "Create"
    /\ \E i \in 1..(Len(last.calls) - 1) : last.calls[i] = "NetworkCreate"

\* C24: once the Create call of a Power network has succeeded, the record's
\* identity is "cloudInstanceID/networkID" for the rest of the handler and
\* when it returns, whether the wait for the network to be available, the
\* tag update or the delegated Read fail or not; the network the handler
\* created is the one the identity names.
C24_CreatedHasIdentity ==
    (kind = "pi" /\ last.op = "Create" /\ (Created \/ pc \in {"c_avail", "c_tags"}))
    => /\ d.id = <<cfg.cloud_instance_id, NewID>>
       /\ remote.exists => remote.key = d.id

\* Create returned an error after the network was created, and the network
\* still exists.
C24_Witness ==
    /\ Created /\ pc = "idle" /\ last.out \notin {"ok", "running"}
    /\ remote.exists /\ d.id # << >>

\* C25: once a Delete of a firewall rule has returned success, the rule and
\* the filter it refers to are both absent remotely.
C25_DeleteRemovesRuleAndFilter ==
    (kind = "fw" /\ last.op = "Delete" /\ last.out = "ok") =>
        (~remote.exists /\ ~remote.aux)

\* C26: the deletion wait of a Power network ends with success only on a
\* status query answered "not found"; when the last query failed for another
\* reason while the network still exists remotely, the wait does not succeed
\* and Delete keeps the identity.
C26_DeletedOnlyOnNotFound ==
    (kind = "pi" /\ wait.name = "deleted" /\ Len(wait.hist) > 0
        /\ wait.hist[Len(wait.hist)] = "err" /\ remote.exists)
    => (wait.done # "ok" /\ ~(last.op = "Delete" /\ last.out = "ok") /\ d.id # << >>)

\* C27: two handlers whose parents (instance id, zone id) differ never
\* compute the same lock name.
C27_KeyNamesParent ==
    \A t1, t2 \in DOMAIN th :
        (th[t1].key # "" /\ th[t1].key = th[t2].key) => th[t1].par = th[t2].par

\* C28: for every resource type, a Delete that returns an error leaves the
\* identity of the record as it was before the call.
C28_FailedDeleteKeepsIdentity ==
    (pc = "idle" /\ last.op = "Delete" /\ last.out \notin {"ok", "panic"})
        => (d.id = last.id0 /\ d.id # << >>)

C28_Witness ==
    /\ pc = "idle" /\ last.op = "Delete" /\ last.out \in Failures
    /\ Len(last.calls) > 0
    /\ WellFormed(kind, last.id0)
    /\ remote.exists
    /\ d.id = last.id0

\* The instances of the list that the location filter of the read keeps.
Remaining == FilterByLocation(loc.instances, cfg.location)

\* C29: the read of the crypto-unit data source succeeds only when exactly
\* one listed instance remains after the location filter; with none it fails
\* with "No resource instance found", with several with "More than one
\* resource instance found", and in both cases the identity and the computed
\* fields stay unset.
C29_ExactlyOneInstance ==
    (kind = "hpcs" /\ pc = "idle" /\ last.op = "Read") =>
        /\ last.out = "ok" => (loc.listed /\ Len(Remaining) = 1)
        /\ (loc.listed /\ Len(Remaining) = 0) =>
              (last.out = "NoInstanceFound" /\ d = Fresh(HpcsZero))
        /\ (loc.listed /\ Len(Remaining) > 1) =>
              (last.out = "MoreThanOneFound" /\ d = Fresh(HpcsZero))

C29_Witness ==
    /\ kind = "hpcs" /\ pc = "idle" /\ last.op = "Read"
    /\ last.out = "MoreThanOneFound"
    /\ cfg.location # Nil
    /\ Len(Remaining) = 2
    /\ Len(loc.instances) = 3
    /\ d.id = << >>

\* The Resources of all pages of a chain, in the order of the pages.
RECURSIVE AllResources(_)
AllResources(chain) ==
    IF chain = << >> THEN << >>
    ELSE Head(chain).resources \o AllResources(Tail(chain))

\* C30: the listing loop of the crypto-unit data source visits every page
\* of the chain: when it ends by its break it has made one list call per page
\* and has collected the instances of all pages in order.
C30_EveryPageListed ==
    (kind = "hpcs" /\ loc.listed) =>
        /\ loc.calls = Len(remote.f)
        /\ loc.instances = AllResources(remote.f)
====
